---- MODULE Spec2Model ----
(***************************************************************************)
(* FinSmart backend: income transactions and automatic goal funding.       *)
(*                                                                         *)
(* The model covers the goal collection (models/meta.js), the transaction  *)
(* collection (models/transacciones.js), goal creation (routes/metas.js),  *)
(* transaction creation and the allocator actualizarMetasConIngreso        *)
(* (routes/transacciones.js).  Every await of a handler is one step, so    *)
(* two requests interleave exactly at the database calls.                  *)
(*                                                                         *)
(* Spec and SpecSec run the creation of transactions with the allocator,   *)
(* SpecMetas the manual contribution, SpecLimite the goal requests of one  *)
(* user, SpecTx the transaction routes of two users (routes/gastos.js      *)
(* included) and SpecClasificar the function clasificarCategoria.          *)
(*                                                                         *)
(* Money is counted in whole units; incomes are multiples of               *)
(* DivisorPorcentaje units so that montoIngreso * 0.1 is a whole number.   *)
(* Rounding of IEEE doubles is not modelled.                               *)
(***************************************************************************)
EXTENDS Integers, Sequences, FiniteSets, TLC

\* ---------------------------------------------------------------- bounds
MaxMetas == 2
MaxSolicitudes == 2
MaxPalabras == 2
MaxMetasLimite == 12

\* ------------------------------------------------------ program constants
DivisorPorcentaje == 10
LimiteMetasActivas == 10

Usuarios == {"u1"}
Procs == {1, 2}
Prioridades == {"baja", "media", "alta"}
Estados == {"activa", "completada", "pausada", "cancelada"}
Tipos == {"ingreso", "gasto"}
Objetivos == {2}
Ingresos == {DivisorPorcentaje, 2 * DivisorPorcentaje}
FechasLimite == {<<>>, <<1>>, <<2>>}
ResultadosSave == {"ok", "ValidationError", "Error"}

VARIABLES metas, transacciones, pc, req, metasActivas, idx, montoRestante,
          resp, fallo, aportes, metasAntes, txAntes, nSolicitudes,
          metasBorradas, txBorradas, reqRuta, metaLocal, cuerpo,
          descripcion, categoria

vars == <<metas, transacciones, pc, req, metasActivas, idx, montoRestante,
          resp, fallo, aportes, metasAntes, txAntes, nSolicitudes,
          metasBorradas, txBorradas, reqRuta, metaLocal, cuerpo,
          descripcion, categoria>>

Min(a, b) == IF a <= b THEN a ELSE b

\* ------------------------------------------------------------- sort order
\* UTF-16 code units of the three priority strings.
Letras(prioridad) ==
  CASE prioridad = "alta" -> <<97, 108, 116, 97>>
    [] prioridad = "baja" -> <<98, 97, 106, 97>>
    [] prioridad = "media" -> <<109, 101, 100, 105, 97>>

\* Binary string comparison of the store: s sorts strictly before t.
RECURSIVE LexMenor(_, _)
LexMenor(s, t) ==
  IF s = <<>> THEN t # <<>>
  ELSE IF t = <<>> THEN FALSE
  ELSE IF Head(s) # Head(t) THEN Head(s) < Head(t)
  ELSE LexMenor(Tail(s), Tail(t))

\* The deadline key sorted descending.
FechaMenorDescendente(f, g) ==
  IF g = <<>> THEN f # <<>>
  ELSE f # <<>> /\ g[1] < f[1]

\* Ascending order of an optional date: a missing field compares as null,
\* and null sorts before every date.
FechaMenor(f, g) ==
  IF f = <<>> THEN g # <<>>
  ELSE g # <<>> /\ f[1] < g[1]

\* a comes strictly before b under sort({ prioridad: -1, fechaLimite: 1 }).
Antes(a, b) ==
  \/ LexMenor(Letras(b.prioridad), Letras(a.prioridad))
  \/ a.prioridad = b.prioridad /\ FechaMenor(a.fechaLimite, b.fechaLimite)

\* A query that matches the active goals of every user.
IdsActivasDeTodos(u) ==
  {i \in 1..Len(metas) :
     i \notin metasBorradas /\ metas[i].estado = "activa"}

\* Ids of the goals matched by find({ usuario, estado: 'activa' }).
IdsActivas(u) ==
  {i \in 1..Len(metas) :
     /\ i \notin metasBorradas
     /\ metas[i].usuario = u /\ metas[i].estado = "activa"}

\* Every result the sorted query can return: the matched documents in an
\* order compatible with the sort keys (ties in any order).
ResultadosFind(u) ==
  LET ids == IdsActivas(u)
      n == Cardinality(ids)
  IN {[k \in 1..n |-> [id |-> s[k], doc |-> metas[s[k]]]] :
        s \in {t \in [1..n -> ids] :
                 /\ \A i, j \in 1..n : i # j => t[i] # t[j]
                 /\ \A i, j \in 1..n :
                      i < j => ~Antes(metas[t[j]], metas[t[i]])}}

\* Twenty percent instead of ten.
PoolVeintePorCiento(montoIngreso) == (2 * montoIngreso) \div DivisorPorcentaje

\* montoIngreso * 0.1
Pool(montoIngreso) == montoIngreso \div DivisorPorcentaje

SinSolicitud == [usuario |-> "", tipo |-> "", monto |-> 0]

\* No request of the goal routes or of the transaction routes: the route,
\* req.usuario.id, req.params.id and, of req.body, the amount, the optional
\* categoria and the descripcion.
SinRuta ==
  [ruta |-> "", usuario |-> "", id |-> 0, monto |-> 0, categoria |-> <<>>,
   descripcion |-> <<>>]

\* No response body: the fields a response of the modelled routes carries.
\* An optional value is a sequence of length at most one, as fechaLimite
\* is.
SinCuerpo == [montoMaximo |-> <<>>, meta |-> <<>>, transacciones |-> <<>>]

\* The state: the two collections with the ids removed from them, and for
\* each request in flight its position in the handler and the handler's
\* local variables.  aportes, metasAntes, txAntes and fallo record what the
\* request did and saw.  A transaction record carries the fields its route
\* sets explicitly.
TypeOK ==
  /\ metas \in Seq([usuario : {"u1", "u2"}, montoObjetivo : Objetivos,
                    montoActual : Nat, prioridad : Prioridades,
                    fechaLimite : FechasLimite, estado : Estados])
  /\ \A i \in DOMAIN transacciones :
       /\ transacciones[i].usuario \in {"u1", "u2"}
       /\ transacciones[i].tipo \in Tipos
       /\ transacciones[i].monto \in Nat \ {0}
       /\ transacciones[i].activa \in BOOLEAN
  /\ metasBorradas \subseteq DOMAIN metas
  /\ txBorradas \subseteq DOMAIN transacciones
  /\ pc \in [Procs -> {"idle", "find", "bucle", "populate", "guardarMeta",
                       "guardarTx", "guardarNueva", "completar", "done"}]
  /\ req \in [Procs -> {SinSolicitud} \cup
                       [usuario : {"u1", "u2"}, tipo : Tipos, monto : Ingresos]]
  /\ \A p \in Procs :
       /\ \A k \in DOMAIN metasActivas[p] :
            metasActivas[p][k].id \in DOMAIN metas
       /\ idx[p] \in 0..(Len(metasActivas[p]) + 1)
       /\ montoRestante[p] \in Nat
       /\ resp[p] \in {0, 200, 201, 400, 404, 500}
       /\ fallo[p] \subseteq {"find", "inc", "populate", "findOne", "save",
                              "saveTx", "count", "query"}
       /\ Len(aportes[p]) <= Len(metasActivas[p])
       /\ Len(metasAntes[p]) <= Len(metas)
       /\ txAntes[p] <= Len(transacciones)
       /\ reqRuta[p].usuario \in {"", "u1", "u2"}
       /\ reqRuta[p].id \in Nat /\ reqRuta[p].monto \in Nat
       /\ Len(metaLocal[p]) <= 1
       /\ Len(cuerpo[p].montoMaximo) <= 1 /\ Len(cuerpo[p].meta) <= 1
  /\ nSolicitudes \in 0..MaxSolicitudes
  /\ descripcion \in Seq(0..255)
  /\ categoria \in {"", "alimentación", "transporte", "entretenimiento",
                    "servicios", "salud", "ropa", "educación", "hogar",
                    "otros"}

InitServidor ==
  /\ metas = <<>>
  /\ transacciones = <<>>
  /\ pc = [p \in Procs |-> "idle"]
  /\ req = [p \in Procs |-> SinSolicitud]
  /\ metasActivas = [p \in Procs |-> <<>>]
  /\ idx = [p \in Procs |-> 0]
  /\ montoRestante = [p \in Procs |-> 0]
  /\ resp = [p \in Procs |-> 0]
  /\ fallo = [p \in Procs |-> {}]
  /\ aportes = [p \in Procs |-> <<>>]
  /\ metasAntes = [p \in Procs |-> <<>>]
  /\ txAntes = [p \in Procs |-> 0]
  /\ nSolicitudes = 0
  /\ metasBorradas = {}
  /\ txBorradas = {}
  /\ reqRuta = [p \in Procs |-> SinRuta]
  /\ metaLocal = [p \in Procs |-> <<>>]
  /\ cuerpo = [p \in Procs |-> SinCuerpo]
  /\ categoria = ""

\* The server after construction; no description is being classified.
Init == InitServidor /\ descripcion = <<>>

\* What the creation of a transaction and its allocator never touch: the
\* ids removed from the collections, the locals of the other routes and
\* the classifier's argument and result.
ajenas == <<metasBorradas, txBorradas, reqRuta, metaLocal, cuerpo,
            descripcion, categoria>>

locales == <<pc, req, metasActivas, idx, montoRestante, resp, fallo,
             aportes, metasAntes, txAntes, nSolicitudes, reqRuta, metaLocal,
             cuerpo, descripcion, categoria>>

\* ------------------------------------------------- POST /api/metas
\* The body carries montoObjetivo, prioridad and optionally fechaLimite;
\* montoActual and estado take the schema defaults 0 and 'activa'.
CrearMeta(u, objetivo, prioridad, fecha) ==
  /\ Len(metas) < MaxMetas
  /\ metas' =
       IF Cardinality(IdsActivas(u)) >= LimiteMetasActivas
       THEN metas
       ELSE Append(metas, [usuario |-> u, montoObjetivo |-> objetivo,
                           montoActual |-> 0, prioridad |-> prioridad,
                           fechaLimite |-> fecha, estado |-> "activa"])
  /\ UNCHANGED <<transacciones, metasBorradas, txBorradas, locales>>

\* ------------------------------------------- POST /api/transacciones
\* Validation, construction and nuevaTransaccion.save().  Request slots are
\* anonymous: a new request takes the lowest free one.
CrearTransaccion(p, u, tipo, monto, resultado) ==
  /\ pc[p] = "idle"
  /\ \A q \in Procs : q < p => pc[q] # "idle"
  /\ nSolicitudes < MaxSolicitudes
  /\ nSolicitudes' = nSolicitudes + 1
  /\ req' = [req EXCEPT ![p] = [usuario |-> u, tipo |-> tipo, monto |-> monto]]
  /\ txAntes' = [txAntes EXCEPT ![p] = Len(transacciones)]
  /\ IF resultado = "ok"
     THEN /\ transacciones' = Append(transacciones,
                 [usuario |-> u, tipo |-> tipo, monto |-> monto, activa |-> TRUE])
          /\ pc' = [pc EXCEPT ![p] = IF tipo = "ingreso" THEN "find" ELSE "populate"]
          /\ resp' = resp
     ELSE /\ transacciones' = transacciones
          /\ pc' = [pc EXCEPT ![p] = "done"]
          /\ resp' = [resp EXCEPT ![p] = IF resultado = "ValidationError" THEN 400 ELSE 500]
  /\ UNCHANGED <<metas, metasActivas, idx, montoRestante, fallo, aportes, metasAntes>>
  /\ UNCHANGED ajenas

\* montoAAgregar = Math.min(montoRestante, montoFaltante)
MontoAAgregarSinTope(restante, faltante) == restante

MontoAAgregar(restante, faltante) == Min(restante, faltante)

\* An error thrown inside actualizarMetasConIngreso propagates to the route's
\* own catch, which answers 500.
ErrorAsignadorPropagado(p, op) ==
  /\ fallo' = [fallo EXCEPT ![p] = @ \cup {op}]
  /\ pc' = [pc EXCEPT ![p] = "done"]
  /\ resp' = [resp EXCEPT ![p] = 500]
  /\ idx' = idx

\* The catch sits inside the loop: the failed goal is skipped and the loop
\* goes on with the next one.
ErrorAsignadorContinua(p, op) ==
  /\ fallo' = [fallo EXCEPT ![p] = @ \cup {op}]
  /\ pc' = [pc EXCEPT ![p] = IF op = "inc" THEN "bucle" ELSE "populate"]
  /\ resp' = resp
  /\ idx' = [idx EXCEPT ![p] = IF op = "inc" THEN @ + 1 ELSE @]

\* catch (error) { console.error(...) }: the error of the query or of an
\* increment ends the function normally; the route goes on to populate.
ErrorAsignador(p, op) ==
  /\ fallo' = [fallo EXCEPT ![p] = @ \cup {op}]
  /\ pc' = [pc EXCEPT ![p] = "populate"]
  /\ resp' = resp
  /\ idx' = idx

\* The increment also writes an expense record, as the manual contribution
\* of routes/metas.js does.
AplicarAporteConRegistro(p, meta, monto) ==
  /\ metas' = [metas EXCEPT ![meta.id].montoActual = @ + monto]
  /\ transacciones' = Append(transacciones,
        [usuario |-> req[p].usuario, tipo |-> "gasto", monto |-> monto,
         activa |-> TRUE])

\* The increment also marks the goal completed once it reaches its target,
\* as the manual contribution does.
AplicarAporteCompleta(p, meta, monto) ==
  /\ metas' = [metas EXCEPT
       ![meta.id].montoActual = @ + monto,
       ![meta.id].estado =
          IF metas[meta.id].montoActual + monto >= metas[meta.id].montoObjetivo
          THEN "completada" ELSE @]
  /\ transacciones' = transacciones

\* Meta.findByIdAndUpdate(meta._id, { $inc: { montoActual: montoAAgregar } }):
\* the store adds to the value it holds now, whatever the goal's status;
\* nothing else is written.  For a goal that is gone the call resolves to
\* null and writes nothing.
AplicarAporte(p, meta, monto) ==
  /\ metas' =
       IF meta.id \in metasBorradas THEN metas
       ELSE [metas EXCEPT ![meta.id].montoActual = @ + monto]
  /\ transacciones' = transacciones

\* actualizarMetasConIngreso: Meta.find(...).sort(...) and the pool.
BuscarMetas(p, ok) ==
  /\ pc[p] = "find"
  /\ IF ok
     THEN /\ \E r \in ResultadosFind(req[p].usuario) :
                metasActivas' = [metasActivas EXCEPT ![p] = r]
          /\ montoRestante' = [montoRestante EXCEPT ![p] = Pool(req[p].monto)]
          /\ idx' = [idx EXCEPT ![p] = 1]
          /\ metasAntes' = [metasAntes EXCEPT ![p] = metas]
          /\ pc' = [pc EXCEPT ![p] = "bucle"]
          /\ UNCHANGED <<fallo, resp>>
     ELSE /\ ErrorAsignador(p, "find")
          /\ UNCHANGED <<metasActivas, montoRestante, metasAntes>>
  /\ UNCHANGED <<metas, transacciones, req, aportes, txAntes, nSolicitudes>>
  /\ UNCHANGED ajenas

\* One iteration of a loop that ends at the first goal without capacity
\* instead of going on to the next one.
IterarMetaSinContinuar(p, ok) ==
  /\ pc[p] = "bucle"
  /\ IF idx[p] > Len(metasActivas[p]) \/ montoRestante[p] <= 0
     THEN /\ pc' = [pc EXCEPT ![p] = "populate"]
          /\ UNCHANGED <<metas, transacciones, idx, montoRestante, fallo, resp, aportes>>
     ELSE LET meta == metasActivas[p][idx[p]]
              montoFaltante == meta.doc.montoObjetivo - meta.doc.montoActual
              montoAAgregar == MontoAAgregar(montoRestante[p], montoFaltante)
          IN IF montoFaltante <= 0
             THEN /\ pc' = [pc EXCEPT ![p] = "populate"]
                  /\ UNCHANGED <<metas, transacciones, idx, montoRestante, fallo, resp, aportes>>
             ELSE IF ok
             THEN /\ AplicarAporte(p, meta, montoAAgregar)
                  /\ montoRestante' = [montoRestante EXCEPT ![p] = @ - montoAAgregar]
                  /\ idx' = [idx EXCEPT ![p] = idx[p] + 1]
                  /\ aportes' = [aportes EXCEPT ![p] = Append(@,
                        [id |-> meta.id, monto |-> montoAAgregar,
                         restante |-> montoRestante[p],
                         actualAntes |-> metas[meta.id].montoActual])]
                  /\ UNCHANGED <<pc, fallo, resp>>
             ELSE /\ ErrorAsignador(p, "inc")
                  /\ UNCHANGED <<metas, transacciones, montoRestante, aportes>>
  /\ UNCHANGED <<req, metasActivas, metasAntes, txAntes, nSolicitudes>>
  /\ UNCHANGED ajenas

\* actualizarMetasConIngreso: one iteration of the for loop.
IterarMeta(p, ok) ==
  /\ pc[p] = "bucle"
  /\ IF idx[p] > Len(metasActivas[p]) \/ montoRestante[p] <= 0
     THEN /\ pc' = [pc EXCEPT ![p] = "populate"]
          /\ UNCHANGED <<metas, transacciones, idx, montoRestante, fallo, resp, aportes>>
     ELSE LET meta == metasActivas[p][idx[p]]
              montoFaltante == meta.doc.montoObjetivo - meta.doc.montoActual
              montoAAgregar == MontoAAgregar(montoRestante[p], montoFaltante)
          IN IF montoFaltante <= 0
             THEN /\ idx' = [idx EXCEPT ![p] = idx[p] + 1]
                  /\ UNCHANGED <<metas, transacciones, pc, montoRestante, fallo, resp, aportes>>
             ELSE IF ok
             THEN /\ AplicarAporte(p, meta, montoAAgregar)
                  /\ montoRestante' = [montoRestante EXCEPT ![p] = @ - montoAAgregar]
                  /\ idx' = [idx EXCEPT ![p] = idx[p] + 1]
                  /\ aportes' = [aportes EXCEPT ![p] = Append(@,
                        [id |-> meta.id, monto |-> montoAAgregar,
                         restante |-> montoRestante[p],
                         actualAntes |-> metas[meta.id].montoActual])]
                  /\ UNCHANGED <<pc, fallo, resp>>
             ELSE /\ ErrorAsignador(p, "inc")
                  /\ UNCHANGED <<metas, transacciones, montoRestante, aportes>>
  /\ UNCHANGED <<req, metasActivas, metasAntes, txAntes, nSolicitudes>>
  /\ UNCHANGED ajenas

\* transaccionGuardada.populate(...) and the response.
Populate(p, ok) ==
  /\ pc[p] = "populate"
  /\ pc' = [pc EXCEPT ![p] = "done"]
  /\ resp' = [resp EXCEPT ![p] = IF ok THEN 201 ELSE 500]
  /\ fallo' = [fallo EXCEPT ![p] = IF ok THEN @ ELSE @ \cup {"populate"}]
  /\ UNCHANGED <<metas, transacciones, req, metasActivas, idx, montoRestante,
                 aportes, metasAntes, txAntes, nSolicitudes>>
  /\ UNCHANGED ajenas

\* The response has been sent; the handler's locals are gone.
Responder(p) ==
  /\ pc[p] = "done"
  /\ pc' = [pc EXCEPT ![p] = "idle"]
  /\ req' = [req EXCEPT ![p] = SinSolicitud]
  /\ metasActivas' = [metasActivas EXCEPT ![p] = <<>>]
  /\ idx' = [idx EXCEPT ![p] = 0]
  /\ montoRestante' = [montoRestante EXCEPT ![p] = 0]
  /\ resp' = [resp EXCEPT ![p] = 0]
  /\ fallo' = [fallo EXCEPT ![p] = {}]
  /\ aportes' = [aportes EXCEPT ![p] = <<>>]
  /\ metasAntes' = [metasAntes EXCEPT ![p] = <<>>]
  /\ txAntes' = [txAntes EXCEPT ![p] = 0]
  /\ reqRuta' = [reqRuta EXCEPT ![p] = SinRuta]
  /\ metaLocal' = [metaLocal EXCEPT ![p] = <<>>]
  /\ cuerpo' = [cuerpo EXCEPT ![p] = SinCuerpo]
  /\ UNCHANGED <<metas, transacciones, nSolicitudes, metasBorradas,
                 txBorradas, descripcion, categoria>>

PasoCrearMeta ==
  \E u \in Usuarios, o \in Objetivos, pr \in Prioridades, f \in FechasLimite :
     CrearMeta(u, o, pr, f)

PasoCrearTransaccion(p) ==
  \E u \in Usuarios, t \in Tipos, m \in Ingresos, r \in ResultadosSave :
     CrearTransaccion(p, u, t, m, r)

PasoBuscarMetas(p) == \E ok \in BOOLEAN : BuscarMetas(p, ok)

PasoIterarMeta(p) == \E ok \in BOOLEAN : IterarMeta(p, ok)

PasoPopulate(p) == \E ok \in BOOLEAN : Populate(p, ok)

Next ==
  \/ PasoCrearMeta
  \/ \E p \in Procs : PasoCrearTransaccion(p)
  \/ \E p \in Procs : PasoBuscarMetas(p)
  \/ \E p \in Procs : PasoIterarMeta(p)
  \/ \E p \in Procs : PasoPopulate(p)
  \/ \E p \in Procs : Responder(p)

Spec == Init /\ [][Next]_vars

\* No request other than p is in flight.
Solo(p) == \A q \in Procs \ {p} : pc[q] = "idle"

\* Requests served one at a time: a handler runs to its response before
\* any other request (goal creation included) is accepted.
NextSec ==
  \/ (\A q \in Procs : pc[q] = "idle") /\ PasoCrearMeta
  \/ \E p \in Procs : Solo(p) /\ PasoCrearTransaccion(p)
  \/ \E p \in Procs : Solo(p) /\ PasoBuscarMetas(p)
  \/ \E p \in Procs : Solo(p) /\ PasoIterarMeta(p)
  \/ \E p \in Procs : Solo(p) /\ PasoPopulate(p)
  \/ \E p \in Procs : Solo(p) /\ Responder(p)

SpecSec == Init /\ [][NextSec]_vars

\* =================================================================
\* The goal routes (routes/metas.js).
\* =================================================================

UsuariosMetas == {"u1", "u2"}
Montos == {1, 2}
EstadosCambio == {"activa", "pausada"}

\* Locals of the allocator and the classifier, which the goal routes and
\* the by-id transaction routes never touch.
asignador == <<req, metasActivas, idx, montoRestante, aportes>>

clasificador == <<descripcion, categoria>>

\* The filter also matches goals that are not active.
BuscarMetaSinEstado(u, id) ==
  IF /\ id \in DOMAIN metas /\ id \notin metasBorradas
     /\ metas[id].usuario = u
  THEN <<metas[id]>> ELSE <<>>

\* The document matched by the filter { _id, usuario }, or null as the
\* empty sequence.
BuscarMetaDe(u, id) ==
  IF /\ id \in DOMAIN metas /\ id \notin metasBorradas
     /\ metas[id].usuario = u
  THEN <<metas[id]>> ELSE <<>>

\* Meta.findOne({ _id, usuario, estado: 'activa' }): the document, or null
\* as the empty sequence.
BuscarMetaActiva(u, id) ==
  IF /\ id \in DOMAIN metas /\ id \notin metasBorradas
     /\ metas[id].usuario = u /\ metas[id].estado = "activa"
  THEN <<metas[id]>> ELSE <<>>

\* The contribution is never rejected.
ExcedeNunca(meta, monto) == FALSE

\* meta.montoActual + monto > meta.montoObjetivo
Excede(meta, monto) == meta.montoActual + monto > meta.montoObjetivo

\* montoMaximo: meta.montoObjetivo - meta.montoActual
MontoMaximo(meta) == meta.montoObjetivo - meta.montoActual

\* The goal counts as completed only above its target.
CompletaEstricta(meta) == meta.montoActual > meta.montoObjetivo

\* meta.montoActual >= meta.montoObjetivo
Completa(meta) == meta.montoActual >= meta.montoObjetivo

\* meta.montoActual += monto; if completed, meta.estado = 'completada'
\* (on the handler's copy of the document).
Aportar(meta, monto) ==
  LET nueva == [meta EXCEPT !.montoActual = @ + monto]
  IN IF Completa(nueva) THEN [nueva EXCEPT !.estado = "completada"] ELSE nueva

\* new Transaccion({ usuario, tipo: 'gasto', descripcion, monto,
\* categoria: 'otros', subcategoria: 'ahorro_meta' }); activa defaults to
\* true.
RegistroAporte(u, monto) ==
  [usuario |-> u, tipo |-> "gasto", monto |-> monto, categoria |-> "otros",
   subcategoria |-> "ahorro_meta", activa |-> TRUE]

\* catch (error): the handler answers 500.
ErrorAgregar(p, op) ==
  /\ fallo' = [fallo EXCEPT ![p] = @ \cup {op}]
  /\ pc' = [pc EXCEPT ![p] = "done"]
  /\ resp' = [resp EXCEPT ![p] = 500]

\* --------------------------------------- POST /api/metas/:id/agregar
\* Meta.findOne, the not-found and overshoot answers, and the update of the
\* handler's copy.
AgregarBuscar(p, u, id, monto, ok) ==
  /\ pc[p] = "idle"
  /\ \A q \in Procs : q < p => pc[q] # "idle"
  /\ nSolicitudes < MaxSolicitudes
  /\ nSolicitudes' = nSolicitudes + 1
  /\ reqRuta' = [reqRuta EXCEPT ![p] =
        [SinRuta EXCEPT !.ruta = "agregar", !.usuario = u, !.id = id,
                        !.monto = monto]]
  /\ metasAntes' = [metasAntes EXCEPT ![p] = metas]
  /\ txAntes' = [txAntes EXCEPT ![p] = Len(transacciones)]
  /\ LET meta == BuscarMetaActiva(u, id)
     IN IF ~ok
        THEN /\ ErrorAgregar(p, "findOne")
             /\ UNCHANGED <<metaLocal, cuerpo>>
        ELSE IF meta = <<>>
        THEN /\ pc' = [pc EXCEPT ![p] = "done"]
             /\ resp' = [resp EXCEPT ![p] = 404]
             /\ UNCHANGED <<metaLocal, cuerpo, fallo>>
        ELSE IF Excede(meta[1], monto)
        THEN /\ pc' = [pc EXCEPT ![p] = "done"]
             /\ resp' = [resp EXCEPT ![p] = 400]
             /\ cuerpo' = [cuerpo EXCEPT
                  ![p].montoMaximo = <<MontoMaximo(meta[1])>>]
             /\ UNCHANGED <<metaLocal, fallo>>
        ELSE /\ metaLocal' = [metaLocal EXCEPT ![p] = <<Aportar(meta[1], monto)>>]
             /\ pc' = [pc EXCEPT ![p] = "guardarMeta"]
             /\ UNCHANGED <<resp, cuerpo, fallo>>
  /\ UNCHANGED <<metas, transacciones, metasBorradas, txBorradas, asignador,
                 clasificador>>

\* await meta.save(): the modified paths of the handler's copy (montoActual,
\* and estado when it was set) are written to the stored document.  When
\* the document is gone nothing is written and the save rejects.
AgregarGuardarMeta(p, ok) ==
  /\ pc[p] = "guardarMeta"
  /\ LET id == reqRuta[p].id
         meta == metaLocal[p][1]
     IN IF ok /\ id \notin metasBorradas
        THEN /\ metas' =
                  [metas EXCEPT
                     ![id].montoActual = meta.montoActual,
                     ![id].estado =
                        IF meta.estado # "activa" THEN meta.estado ELSE @]
             /\ pc' = [pc EXCEPT ![p] = "guardarTx"]
             /\ UNCHANGED <<resp, fallo>>
        ELSE /\ ErrorAgregar(p, "save")
             /\ metas' = metas
  /\ UNCHANGED <<transacciones, metasBorradas, txBorradas, asignador,
                 clasificador, reqRuta, metaLocal, cuerpo, metasAntes,
                 txAntes, nSolicitudes>>

\* await nuevaTransaccion.save() and the answer with the goal and the record.
AgregarGuardarTx(p, ok) ==
  /\ pc[p] = "guardarTx"
  /\ LET nuevaTransaccion == RegistroAporte(reqRuta[p].usuario, reqRuta[p].monto)
     IN IF ok
        THEN /\ transacciones' = Append(transacciones, nuevaTransaccion)
             /\ pc' = [pc EXCEPT ![p] = "done"]
             /\ resp' = [resp EXCEPT ![p] = 200]
             /\ cuerpo' = [cuerpo EXCEPT
                  ![p].meta = metaLocal[p],
                  ![p].transacciones = <<nuevaTransaccion>>]
             /\ fallo' = fallo
        ELSE /\ ErrorAgregar(p, "saveTx")
             /\ UNCHANGED <<transacciones, cuerpo>>
  /\ UNCHANGED <<metas, metasBorradas, txBorradas, asignador, clasificador,
                 reqRuta, metaLocal, metasAntes, txAntes, nSolicitudes>>

\* ------------------------------------ PATCH /api/metas/:id/estado
\* Meta.findOneAndUpdate({ _id, usuario }, { estado }): one atomic write;
\* the answer is 404 when nothing matches.
CambiarEstado(u, id, estado) ==
  /\ metas' =
       IF BuscarMetaDe(u, id) = <<>> THEN metas
       ELSE [metas EXCEPT ![id].estado = estado]
  /\ UNCHANGED <<transacciones, metasBorradas, txBorradas, locales>>

PasoCrearMetaDe ==
  \E u \in UsuariosMetas, o \in Objetivos : CrearMeta(u, o, "media", <<>>)

PasoAgregarBuscar(p) ==
  \E u \in UsuariosMetas, id \in 1..MaxMetas, m \in Montos, ok \in BOOLEAN :
     AgregarBuscar(p, u, id, m, ok)

PasoAgregarGuardarMeta(p) == \E ok \in BOOLEAN : AgregarGuardarMeta(p, ok)

PasoAgregarGuardarTx(p) == \E ok \in BOOLEAN : AgregarGuardarTx(p, ok)

PasoCambiarEstado ==
  \E u \in UsuariosMetas, id \in 1..MaxMetas, e \in EstadosCambio :
     CambiarEstado(u, id, e)

\* No request is in flight.
Libre == \A q \in Procs : pc[q] = "idle"

\* The goal routes, requests served one at a time.
NextMetas ==
  \/ Libre /\ PasoCrearMetaDe
  \/ Libre /\ PasoCambiarEstado
  \/ \E p \in Procs : Solo(p) /\ PasoAgregarBuscar(p)
  \/ \E p \in Procs : Solo(p) /\ PasoAgregarGuardarMeta(p)
  \/ \E p \in Procs : Solo(p) /\ PasoAgregarGuardarTx(p)
  \/ \E p \in Procs : Solo(p) /\ Responder(p)

SpecMetas == Init /\ [][NextMetas]_vars

\* ------------------------------------------------- POST /api/metas
\* The creation request as its two database calls, for the interleavings
\* of goal requests.

\* if (metasActivas >= 10) over Meta.countDocuments({ usuario, estado:
\* 'activa' })
LimiteAlcanzado(u) == Cardinality(IdsActivas(u)) >= LimiteMetasActivas

\* Creation requests that passed the limit check and have not saved yet.
PorGuardar == {q \in Procs : pc[q] = "guardarNueva"}

\* Meta.countDocuments and the limit check.  The body's montoObjetivo is
\* kept in the monto field of the request.
CrearContar(p, u, objetivo, ok) ==
  /\ pc[p] = "idle"
  /\ \A q \in Procs : q < p => pc[q] # "idle"
  /\ Len(metas) + Cardinality(PorGuardar) < MaxMetasLimite
  /\ reqRuta' = [reqRuta EXCEPT ![p] =
        [SinRuta EXCEPT !.ruta = "crear", !.usuario = u, !.monto = objetivo]]
  /\ IF ~ok
     THEN ErrorAgregar(p, "count")
     ELSE IF LimiteAlcanzado(u)
     THEN /\ pc' = [pc EXCEPT ![p] = "done"]
          /\ resp' = [resp EXCEPT ![p] = 400]
          /\ fallo' = fallo
     ELSE /\ pc' = [pc EXCEPT ![p] = "guardarNueva"]
          /\ UNCHANGED <<resp, fallo>>
  /\ UNCHANGED <<metas, transacciones, metasBorradas, txBorradas, asignador,
                 clasificador, metaLocal, cuerpo, metasAntes, txAntes,
                 nSolicitudes>>

\* new Meta({ ...req.body, usuario }), nuevaMeta.save() and the answer; the
\* populate that follows reads the user only.
CrearGuardar(p, resultado) ==
  /\ pc[p] = "guardarNueva"
  /\ LET nuevaMeta ==
           [usuario |-> reqRuta[p].usuario, montoObjetivo |-> reqRuta[p].monto,
            montoActual |-> 0, prioridad |-> "media", fechaLimite |-> <<>>,
            estado |-> "activa"]
     IN IF resultado = "ok"
        THEN /\ metas' = Append(metas, nuevaMeta)
             /\ resp' = [resp EXCEPT ![p] = 201]
             /\ cuerpo' = [cuerpo EXCEPT ![p].meta = <<nuevaMeta>>]
        ELSE /\ metas' = metas
             /\ resp' = [resp EXCEPT ![p] =
                   IF resultado = "ValidationError" THEN 400 ELSE 500]
             /\ cuerpo' = cuerpo
  /\ pc' = [pc EXCEPT ![p] = "done"]
  /\ UNCHANGED <<transacciones, metasBorradas, txBorradas, asignador,
                 clasificador, reqRuta, metaLocal, fallo, metasAntes, txAntes,
                 nSolicitudes>>

\* --------------------------------------------- PUT /api/metas/:id
\* Meta.findOneAndUpdate({ _id, usuario }, req.body, { new: true }): the
\* body's montoObjetivo and, when present, montoActual and estado are
\* written in one atomic update.  A goal that comes back active with
\* montoActual >= montoObjetivo is marked completed on the handler's copy,
\* to be saved by the next step.
ActualizarBuscar(p, u, id, objetivo, actual, estado, ok) ==
  /\ pc[p] = "idle"
  /\ \A q \in Procs : q < p => pc[q] # "idle"
  /\ reqRuta' = [reqRuta EXCEPT ![p] =
        [SinRuta EXCEPT !.ruta = "actualizar", !.usuario = u, !.id = id]]
  /\ IF ~ok
     THEN /\ ErrorAgregar(p, "findOne")
          /\ UNCHANGED <<metas, metaLocal, cuerpo>>
     ELSE IF BuscarMetaDe(u, id) = <<>>
     THEN /\ pc' = [pc EXCEPT ![p] = "done"]
          /\ resp' = [resp EXCEPT ![p] = 404]
          /\ UNCHANGED <<metas, metaLocal, cuerpo, fallo>>
     ELSE LET metaActualizada ==
                [metas[id] EXCEPT
                   !.montoObjetivo = objetivo,
                   !.montoActual = IF actual = <<>> THEN @ ELSE actual[1],
                   !.estado = IF estado = <<>> THEN @ ELSE estado[1]]
          IN /\ metas' = [metas EXCEPT ![id] = metaActualizada]
             /\ fallo' = fallo
             /\ IF Completa(metaActualizada) /\ metaActualizada.estado = "activa"
                THEN /\ metaLocal' = [metaLocal EXCEPT ![p] =
                           <<[metaActualizada EXCEPT !.estado = "completada"]>>]
                     /\ pc' = [pc EXCEPT ![p] = "completar"]
                     /\ UNCHANGED <<resp, cuerpo>>
                ELSE /\ pc' = [pc EXCEPT ![p] = "done"]
                     /\ resp' = [resp EXCEPT ![p] = 200]
                     /\ cuerpo' = [cuerpo EXCEPT ![p].meta = <<metaActualizada>>]
                     /\ metaLocal' = metaLocal
  /\ UNCHANGED <<transacciones, metasBorradas, txBorradas, asignador,
                 clasificador, metasAntes, txAntes, nSolicitudes>>

\* await metaActualizada.save(): the modified path estado is written, unless
\* the document is gone, and the handler answers with its copy.
ActualizarCompletar(p, ok) ==
  /\ pc[p] = "completar"
  /\ IF ok
     THEN /\ metas' =
               IF reqRuta[p].id \in metasBorradas THEN metas
               ELSE [metas EXCEPT ![reqRuta[p].id].estado = "completada"]
          /\ pc' = [pc EXCEPT ![p] = "done"]
          /\ resp' = [resp EXCEPT ![p] = 200]
          /\ cuerpo' = [cuerpo EXCEPT ![p].meta = metaLocal[p]]
          /\ fallo' = fallo
     ELSE /\ ErrorAgregar(p, "save")
          /\ UNCHANGED <<metas, cuerpo>>
  /\ UNCHANGED <<transacciones, metasBorradas, txBorradas, asignador,
                 clasificador, reqRuta, metaLocal, metasAntes, txAntes,
                 nSolicitudes>>

\* ------------------------------------------ DELETE /api/metas/:id
\* Meta.findOneAndDelete({ _id, usuario }): one atomic removal; the answer
\* is 404 when nothing matches.
EliminarMeta(u, id) ==
  /\ metasBorradas' =
       IF BuscarMetaDe(u, id) = <<>> THEN metasBorradas
       ELSE metasBorradas \cup {id}
  /\ UNCHANGED <<metas, transacciones, txBorradas, locales>>

\* The goal the update, status and deletion requests address, and the
\* optional body fields of an update.
IdsCambio == {1}
ActualesCuerpo == {<<>>, <<2>>}
EstadosCuerpo == {<<>>, <<"activa">>}

PasoCrearContar(p) ==
  \E u \in Usuarios, o \in Objetivos, ok \in BOOLEAN : CrearContar(p, u, o, ok)

PasoCrearGuardar(p) == \E r \in ResultadosSave : CrearGuardar(p, r)

PasoActualizarBuscar(p) ==
  \E u \in Usuarios, id \in IdsCambio, o \in Objetivos, a \in ActualesCuerpo,
     e \in EstadosCuerpo, ok \in BOOLEAN :
     ActualizarBuscar(p, u, id, o, a, e, ok)

PasoActualizarCompletar(p) == \E ok \in BOOLEAN : ActualizarCompletar(p, ok)

PasoCambiarEstadoDe ==
  \E u \in Usuarios, id \in IdsCambio, e \in EstadosCambio :
     CambiarEstado(u, id, e)

PasoEliminarMeta == \E u \in Usuarios, id \in IdsCambio : EliminarMeta(u, id)

\* The goal requests of one user, interleaved at their database calls.
NextLimite ==
  \/ \E p \in Procs : PasoCrearContar(p)
  \/ \E p \in Procs : PasoCrearGuardar(p)
  \/ \E p \in Procs : PasoActualizarBuscar(p)
  \/ \E p \in Procs : PasoActualizarCompletar(p)
  \/ PasoCambiarEstadoDe
  \/ PasoEliminarMeta
  \/ \E p \in Procs : Responder(p)

SpecLimite == Init /\ [][NextLimite]_vars

\* =================================================================
\* The by-id transaction routes (routes/transacciones.js) and the routes
\* of routes/gastos.js, all mounted behind authenticateToken.
\* =================================================================

\* The document matched by { _id, usuario, activa: true }, or null as the
\* empty sequence.
BuscarTransaccion(u, id) ==
  IF /\ id \in DOMAIN transacciones /\ id \notin txBorradas
     /\ transacciones[id].usuario = u /\ transacciones[id].activa
  THEN <<transacciones[id]>> ELSE <<>>

\* The document with the given _id, or null as the empty sequence.
BuscarPorId(id) ==
  IF id \in DOMAIN transacciones /\ id \notin txBorradas
  THEN <<transacciones[id]>> ELSE <<>>

\* A request of these routes arrives at the free slot p.
Llega(p, ruta, u, id) ==
  /\ pc[p] = "idle"
  /\ \A q \in Procs : q < p => pc[q] # "idle"
  /\ reqRuta' = [reqRuta EXCEPT ![p] =
        [SinRuta EXCEPT !.ruta = ruta, !.usuario = u, !.id = id]]
  /\ pc' = [pc EXCEPT ![p] = "done"]

\* The answer of a handler whose query found documento (null answers
\* noEncontrado) or failed (the catch answers alFallar).
Contesta(p, ok, documento, noEncontrado, alFallar) ==
  /\ resp' = [resp EXCEPT ![p] =
        IF ~ok THEN alFallar
        ELSE IF documento = <<>> THEN noEncontrado ELSE 200]
  /\ cuerpo' = [cuerpo EXCEPT ![p].transacciones =
        IF ok THEN documento ELSE <<>>]
  /\ fallo' = [fallo EXCEPT ![p] = IF ok THEN @ ELSE @ \cup {"query"}]

\* What these routes leave alone.
restoTx == <<metas, metasBorradas, asignador, clasificador, metaLocal,
             metasAntes, txAntes, nSolicitudes>>

\* ------------------------------------ GET /api/transacciones/:id
ObtenerTransaccion(p, u, id, ok) ==
  /\ Llega(p, "transacciones.get", u, id)
  /\ Contesta(p, ok, BuscarTransaccion(u, id), 404, 500)
  /\ UNCHANGED <<transacciones, txBorradas, restoTx>>

\* ------------------------------------ PUT /api/transacciones/:id
\* findOneAndUpdate({ _id, usuario, activa: true }, { tipo, monto, ... },
\* { new: true }) and the answer with the updated document.
ActualizarTransaccion(p, u, id, tipo, monto, ok) ==
  /\ Llega(p, "transacciones.put", u, id)
  /\ LET encontrada == BuscarTransaccion(u, id)
         actualizada ==
           IF encontrada = <<>> THEN <<>>
           ELSE <<[encontrada[1] EXCEPT !.tipo = tipo, !.monto = monto]>>
     IN /\ transacciones' =
             IF ok /\ actualizada # <<>>
             THEN [transacciones EXCEPT ![id] = actualizada[1]]
             ELSE transacciones
        /\ Contesta(p, ok, actualizada, 404, 500)
  /\ UNCHANGED <<txBorradas, restoTx>>

\* --------------------------------- DELETE /api/transacciones/:id
\* findOneAndUpdate({ _id, usuario, activa: true }, { activa: false }).
EliminarTransaccion(p, u, id, ok) ==
  /\ Llega(p, "transacciones.delete", u, id)
  /\ LET encontrada == BuscarTransaccion(u, id)
         eliminada ==
           IF encontrada = <<>> THEN <<>>
           ELSE <<[encontrada[1] EXCEPT !.activa = FALSE]>>
     IN /\ transacciones' =
             IF ok /\ eliminada # <<>>
             THEN [transacciones EXCEPT ![id] = eliminada[1]]
             ELSE transacciones
        /\ Contesta(p, ok, eliminada, 404, 500)
  /\ UNCHANGED <<txBorradas, restoTx>>

\* The stored documents with ids from k on, in id order.
RECURSIVE Guardadas(_)
Guardadas(k) ==
  IF k > Len(transacciones) THEN <<>>
  ELSE IF k \in txBorradas THEN Guardadas(k + 1)
  ELSE <<transacciones[k]>> \o Guardadas(k + 1)

\* ------------------------------------------------ GET /api/gastos
\* Transaccion.find(): every stored document.
ListarGastos(p, u, ok) ==
  /\ Llega(p, "gastos.get", u, 0)
  /\ resp' = [resp EXCEPT ![p] = IF ok THEN 200 ELSE 500]
  /\ cuerpo' = [cuerpo EXCEPT ![p].transacciones =
        IF ok THEN Guardadas(1) ELSE <<>>]
  /\ fallo' = [fallo EXCEPT ![p] = IF ok THEN @ ELSE @ \cup {"query"}]
  /\ UNCHANGED <<transacciones, txBorradas, restoTx>>

\* -------------------------------------------- PUT /api/gastos/:id
\* Transaccion.findByIdAndUpdate(id, { ...req.body, categoria }, { new:
\* true }): the body's monto and, when present, activa are written to the
\* document with that id; the answer is the document or null, 400 when the
\* call fails.
ActualizarGasto(p, u, id, monto, activa, ok) ==
  /\ Llega(p, "gastos.put", u, id)
  /\ LET encontrada == BuscarPorId(id)
         actualizada ==
           IF encontrada = <<>> THEN <<>>
           ELSE <<[encontrada[1] EXCEPT
                     !.monto = monto,
                     !.activa = IF activa = <<>> THEN @ ELSE activa[1]]>>
     IN /\ transacciones' =
             IF ok /\ actualizada # <<>>
             THEN [transacciones EXCEPT ![id] = actualizada[1]]
             ELSE transacciones
        /\ Contesta(p, ok, actualizada, 200, 400)
  /\ UNCHANGED <<txBorradas, restoTx>>

\* ----------------------------------------- DELETE /api/gastos/:id
\* Transaccion.findByIdAndDelete(id): the document is removed from the
\* collection; the answer carries a message only.
EliminarGasto(p, u, id, ok) ==
  /\ Llega(p, "gastos.delete", u, id)
  /\ txBorradas' =
       IF ok /\ BuscarPorId(id) # <<>> THEN txBorradas \cup {id}
       ELSE txBorradas
  /\ Contesta(p, ok, <<>>, 200, 500)
  /\ UNCHANGED <<transacciones, restoTx>>

\* Optional activa field of a body.
ActivasCuerpo == {<<>>, <<TRUE>>}

IdsTx == 1..MaxSolicitudes

PasoCrearGasto(p) ==
  \E u \in UsuariosMetas, m \in Ingresos, r \in ResultadosSave :
     CrearTransaccion(p, u, "gasto", m, r)

PasoObtenerTransaccion(p) ==
  \E u \in UsuariosMetas, id \in IdsTx, ok \in BOOLEAN :
     ObtenerTransaccion(p, u, id, ok)

PasoActualizarTransaccion(p) ==
  \E u \in UsuariosMetas, id \in IdsTx, t \in Tipos, m \in Ingresos,
     ok \in BOOLEAN :
     ActualizarTransaccion(p, u, id, t, m, ok)

PasoEliminarTransaccion(p) ==
  \E u \in UsuariosMetas, id \in IdsTx, ok \in BOOLEAN :
     EliminarTransaccion(p, u, id, ok)

PasoListarGastos(p) ==
  \E u \in UsuariosMetas, ok \in BOOLEAN : ListarGastos(p, u, ok)

PasoActualizarGasto(p) ==
  \E u \in UsuariosMetas, id \in IdsTx, m \in Ingresos, a \in ActivasCuerpo,
     ok \in BOOLEAN :
     ActualizarGasto(p, u, id, m, a, ok)

PasoEliminarGasto(p) ==
  \E u \in UsuariosMetas, id \in IdsTx, ok \in BOOLEAN :
     EliminarGasto(p, u, id, ok)

\* The transaction routes of two users, requests served one at a time.
NextTx ==
  \/ \E p \in Procs : Solo(p) /\ PasoCrearGasto(p)
  \/ \E p \in Procs : Solo(p) /\ PasoPopulate(p)
  \/ \E p \in Procs : Solo(p) /\ PasoObtenerTransaccion(p)
  \/ \E p \in Procs : Solo(p) /\ PasoActualizarTransaccion(p)
  \/ \E p \in Procs : Solo(p) /\ PasoEliminarTransaccion(p)
  \/ \E p \in Procs : Solo(p) /\ PasoListarGastos(p)
  \/ \E p \in Procs : Solo(p) /\ PasoActualizarGasto(p)
  \/ \E p \in Procs : Solo(p) /\ PasoEliminarGasto(p)
  \/ \E p \in Procs : Solo(p) /\ Responder(p)

SpecTx == Init /\ [][NextTx]_vars

\* =================================================================
\* clasificarCategoria (routes/transacciones.js).
\* =================================================================

\* Strings are sequences of UTF-16 code units; the inputs stay within
\* Basic Latin and Latin-1.

\* String.prototype.toLowerCase on one code unit: A-Z and the Latin-1
\* capitals (all of 192..222 but the multiplication sign) move up by 32.
Minuscula(c) ==
  IF (c >= 65 /\ c <= 90) \/ (c >= 192 /\ c <= 222 /\ c # 215)
  THEN c + 32 ELSE c

toLowerCase(s) == [i \in DOMAIN s |-> Minuscula(s[i])]

\* White space and line terminators below 256.
EsBlanco(c) == c \in {9, 10, 11, 12, 13, 32, 160}

RECURSIVE trimStart(_)
trimStart(s) ==
  IF s # <<>> /\ EsBlanco(Head(s)) THEN trimStart(Tail(s)) ELSE s

RECURSIVE trimEnd(_)
trimEnd(s) ==
  IF s # <<>> /\ EsBlanco(s[Len(s)])
  THEN trimEnd(SubSeq(s, 1, Len(s) - 1)) ELSE s

\* String.prototype.trim
trim(s) == trimEnd(trimStart(s))

\* texto.includes(palabra)
includes(texto, palabra) ==
  \E i \in 0..(Len(texto) - Len(palabra)) :
     SubSeq(texto, i + 1, i + Len(palabra)) = palabra

\* const categorias = { ... }: the eight keyword lists in declaration
\* order, each keyword as its UTF-16 code units.
categorias ==
  << [categoria |-> "alimentación", palabras |-> <<
       <<99, 111, 109, 105, 100, 97>>,  \* comida
       <<114, 101, 115, 116, 97, 117, 114, 97, 110, 116, 101>>,  \* restaurante
       <<115, 117, 112, 101, 114, 109, 101, 114, 99, 97, 100, 111>>,  \* supermercado
       <<109, 101, 114, 99, 97, 100, 111>>,  \* mercado
       <<112, 105, 122, 122, 97>>,  \* pizza
       <<104, 97, 109, 98, 117, 114, 103, 117, 101, 115, 97>>,  \* hamburguesa
       <<99, 97, 102, 233>>,  \* café
       <<100, 101, 115, 97, 121, 117, 110, 111>>,  \* desayuno
       <<97, 108, 109, 117, 101, 114, 122, 111>>,  \* almuerzo
       <<99, 101, 110, 97>>,  \* cena
       <<98, 101, 98, 105, 100, 97>>,  \* bebida
       <<99, 111, 99, 97, 32, 99, 111, 108, 97>>,  \* coca cola
       <<97, 103, 117, 97>>,  \* agua
       <<112, 97, 110>>,  \* pan
       <<112, 97, 110, 97, 100, 101, 114, 237, 97>>,  \* panadería
       <<99, 97, 114, 110, 105, 99, 101, 114, 237, 97>>,  \* carnicería
       <<118, 101, 114, 100, 117, 108, 101, 114, 237, 97>>,  \* verdulería
       <<115, 117, 115, 104, 105>>,  \* sushi
       <<100, 101, 108, 105, 118, 101, 114, 121>>  \* delivery
     >>],
     [categoria |-> "transporte", palabras |-> <<
       <<116, 114, 97, 110, 115, 112, 111, 114, 116, 101>>,  \* transporte
       <<117, 98, 101, 114>>,  \* uber
       <<116, 97, 120, 105>>,  \* taxi
       <<98, 117, 115>>,  \* bus
       <<109, 101, 116, 114, 111>>,  \* metro
       <<103, 97, 115, 111, 108, 105, 110, 97>>,  \* gasolina
       <<99, 111, 109, 98, 117, 115, 116, 105, 98, 108, 101>>,  \* combustible
       <<112, 101, 97, 106, 101>>,  \* peaje
       <<112, 97, 114, 107, 105, 110, 103>>,  \* parking
       <<101, 115, 116, 97, 99, 105, 111, 110, 97, 109, 105, 101, 110, 116, 111>>,  \* estacionamiento
       <<109, 111, 116, 111, 99, 105, 99, 108, 101, 116, 97>>,  \* motocicleta
       <<98, 105, 99, 105, 99, 108, 101, 116, 97>>,  \* bicicleta
       <<97, 118, 105, 243, 110>>,  \* avión
       <<118, 117, 101, 108, 111>>,  \* vuelo
       <<116, 114, 101, 110>>,  \* tren
       <<98, 97, 114, 99, 111>>  \* barco
     >>],
     [categoria |-> "entretenimiento", palabras |-> <<
       <<99, 105, 110, 101>>,  \* cine
       <<111, 99, 105, 111>>,  \* ocio
       <<112, 101, 108, 237, 99, 117, 108, 97>>,  \* película
       <<116, 101, 97, 116, 114, 111>>,  \* teatro
       <<99, 111, 110, 99, 105, 101, 114, 116, 111>>,  \* concierto
       <<98, 97, 114>>,  \* bar
       <<100, 105, 115, 99, 111, 116, 101, 99, 97>>,  \* discoteca
       <<118, 105, 100, 101, 111, 106, 117, 101, 103, 111>>,  \* videojuego
       <<110, 101, 116, 102, 108, 105, 120>>,  \* netflix
       <<115, 112, 111, 116, 105, 102, 121>>,  \* spotify
       <<115, 116, 114, 101, 97, 109, 105, 110, 103>>,  \* streaming
       <<112, 97, 114, 113, 117, 101>>,  \* parque
       <<100, 105, 118, 101, 114, 115, 105, 243, 110>>,  \* diversión
       <<103, 105, 109, 110, 97, 115, 105, 111>>,  \* gimnasio
       <<100, 101, 112, 111, 114, 116, 101>>,  \* deporte
       <<102, 117, 116, 98, 111, 108>>,  \* futbol
       <<98, 97, 115, 113, 117, 101, 116>>  \* basquet
     >>],
     [categoria |-> "servicios", palabras |-> <<
       <<108, 117, 122>>,  \* luz
       <<97, 103, 117, 97>>,  \* agua
       <<105, 110, 116, 101, 114, 110, 101, 116>>,  \* internet
       <<116, 101, 108, 233, 102, 111, 110, 111>>,  \* teléfono
       <<103, 97, 115>>,  \* gas
       <<101, 108, 101, 99, 116, 114, 105, 99, 105, 100, 97, 100>>,  \* electricidad
       <<99, 97, 98, 108, 101>>,  \* cable
       <<115, 101, 103, 117, 114, 111>>,  \* seguro
       <<98, 97, 110, 99, 111>>,  \* banco
       <<110, 111, 116, 97, 114, 237, 97>>,  \* notaría
       <<97, 98, 111, 103, 97, 100, 111>>,  \* abogado
       <<99, 111, 110, 116, 97, 100, 111, 114>>,  \* contador
       <<108, 105, 109, 112, 105, 101, 122, 97>>,  \* limpieza
       <<106, 97, 114, 100, 105, 110, 101, 114, 237, 97>>,  \* jardinería
       <<114, 101, 112, 97, 114, 97, 99, 105, 243, 110>>  \* reparación
     >>],
     [categoria |-> "salud", palabras |-> <<
       <<115, 97, 108, 117, 100>>,  \* salud
       <<109, 101, 100, 105, 99, 105, 110, 97>>,  \* medicina
       <<100, 111, 99, 116, 111, 114>>,  \* doctor
       <<109, 233, 100, 105, 99, 111>>,  \* médico
       <<104, 111, 115, 112, 105, 116, 97, 108>>,  \* hospital
       <<99, 108, 237, 110, 105, 99, 97>>,  \* clínica
       <<102, 97, 114, 109, 97, 99, 105, 97>>,  \* farmacia
       <<112, 97, 115, 116, 105, 108, 108, 97, 115>>,  \* pastillas
       <<118, 105, 116, 97, 109, 105, 110, 97, 115>>,  \* vitaminas
       <<100, 101, 110, 116, 105, 115, 116, 97>>,  \* dentista
       <<111, 102, 116, 97, 108, 109, 243, 108, 111, 103, 111>>,  \* oftalmólogo
       <<108, 97, 98, 111, 114, 97, 116, 111, 114, 105, 111>>,  \* laboratorio
       <<114, 97, 121, 111, 115, 32, 120>>,  \* rayos x
       <<99, 111, 110, 115, 117, 108, 116, 97>>  \* consulta
     >>],
     [categoria |-> "ropa", palabras |-> <<
       <<114, 111, 112, 97>>,  \* ropa
       <<122, 97, 112, 97, 116, 111>>,  \* zapato
       <<99, 97, 109, 105, 115, 97>>,  \* camisa
       <<112, 97, 110, 116, 97, 108, 243, 110>>,  \* pantalón
       <<118, 101, 115, 116, 105, 100, 111>>,  \* vestido
       <<116, 105, 101, 110, 100, 97>>,  \* tienda
       <<98, 111, 117, 116, 105, 113, 117, 101>>,  \* boutique
       <<122, 97, 112, 97, 116, 101, 114, 237, 97>>,  \* zapatería
       <<109, 111, 100, 97>>,  \* moda
       <<97, 99, 99, 101, 115, 111, 114, 105, 111, 115>>,  \* accesorios
       <<98, 111, 108, 115, 111>>,  \* bolso
       <<99, 97, 114, 116, 101, 114, 97>>  \* cartera
     >>],
     [categoria |-> "educación", palabras |-> <<
       <<101, 100, 117, 99, 97, 99, 105, 243, 110>>,  \* educación
       <<99, 111, 108, 101, 103, 105, 111>>,  \* colegio
       <<117, 110, 105, 118, 101, 114, 115, 105, 100, 97, 100>>,  \* universidad
       <<99, 117, 114, 115, 111>>,  \* curso
       <<108, 105, 98, 114, 111>>,  \* libro
       <<99, 117, 97, 100, 101, 114, 110, 111>>,  \* cuaderno
       <<108, 225, 112, 105, 122>>,  \* lápiz
       <<109, 97, 116, 101, 114, 105, 97, 108>>,  \* material
       <<109, 97, 116, 114, 237, 99, 117, 108, 97>>,  \* matrícula
       <<112, 101, 110, 115, 105, 243, 110>>,  \* pensión
       <<116, 117, 116, 111, 114, 237, 97>>  \* tutoría
     >>],
     [categoria |-> "hogar", palabras |-> <<
       <<104, 111, 103, 97, 114>>,  \* hogar
       <<99, 97, 115, 97>>,  \* casa
       <<109, 117, 101, 98, 108, 101>>,  \* mueble
       <<101, 108, 101, 99, 116, 114, 111, 100, 111, 109, 233, 115, 116, 105, 99, 111>>,  \* electrodoméstico
       <<100, 101, 99, 111, 114, 97, 99, 105, 243, 110>>,  \* decoración
       <<104, 101, 114, 114, 97, 109, 105, 101, 110, 116, 97>>,  \* herramienta
       <<112, 105, 110, 116, 117, 114, 97>>,  \* pintura
       <<99, 111, 110, 115, 116, 114, 117, 99, 99, 105, 243, 110>>,  \* construcción
       <<97, 108, 113, 117, 105, 108, 101, 114>>,  \* alquiler
       <<104, 105, 112, 111, 116, 101, 99, 97>>  \* hipoteca
     >>] >>

\* palabras.some(palabra => texto.includes(palabra))
some(palabras, texto) ==
  \E k \in DOMAIN palabras : includes(texto, palabras[k])

\* The loop keeps going after a match: the last matching list wins.
UltimaCategoria(texto, k) ==
  LET coinciden == {j \in k..Len(categorias) : some(categorias[j].palabras, texto)}
  IN IF coinciden = {} THEN "otros"
     ELSE categorias[CHOOSE j \in coinciden : \A i \in coinciden : i <= j].categoria

\* for (const [categoria, palabras] of Object.entries(categorias)), from
\* the k-th entry on: the first list with a keyword in texto, else 'otros'.
RECURSIVE PrimeraCategoria(_, _)
PrimeraCategoria(texto, k) ==
  IF k > Len(categorias) THEN "otros"
  ELSE IF some(categorias[k].palabras, texto) THEN categorias[k].categoria
  ELSE PrimeraCategoria(texto, k + 1)

\* The keywords are looked up in the description as it was typed.
clasificarSinNormalizar(d) == PrimeraCategoria(d, 1)

clasificarCategoria(d) == PrimeraCategoria(trim(toLowerCase(d)), 1)

\* Words the sample descriptions are made of.
Muestras ==
  { <<114, 101, 115, 116, 97, 117, 114, 97, 110, 116, 101>>,  \* restaurante
    <<85, 98, 101, 114>>,                                      \* Uber
    <<97, 103, 117, 97>>,                                      \* agua
    <<112, 97, 110, 116, 97, 108, 243, 110>>,                  \* pantalón
    <<67, 65, 70, 201>>,                                       \* CAFÉ
    <<98, 97, 114, 99, 111>>,                                  \* barco
    <<103, 97, 115, 111, 108, 105, 110, 97>>,                  \* gasolina
    <<104, 111, 103, 97, 114>>,                                \* hogar
    <<76, 105, 98, 114, 111>>,                                 \* Libro
    <<100, 111, 99, 116, 111, 114>>,                           \* doctor
    <<99, 105, 110, 101>>,                                     \* cine
    <<108, 117, 122>>,                                         \* luz
    <<90, 97, 112, 97, 116, 111>>,                             \* Zapato
    <<120, 121, 122>>,                                         \* xyz
    <<32>> }                                                   \* a blank

\* The descriptions of at most n sample words.
RECURSIVE TextosDe(_)
TextosDe(n) ==
  IF n = 0 THEN {<<>>}
  ELSE LET cortos == TextosDe(n - 1)
       IN cortos \cup {t \o w : t \in cortos, w \in Muestras}

Textos == TextosDe(MaxPalabras)

\* The collections and the locals of every route.
servidor == <<metas, transacciones, metasBorradas, txBorradas, pc, req,
              metasActivas, idx, montoRestante, resp, fallo, aportes,
              metasAntes, txAntes, nSolicitudes, reqRuta, metaLocal, cuerpo>>

\* A description arrives; nothing has been classified yet.
InitClasificar == InitServidor /\ descripcion \in Textos

\* const categoriaFinal = categoria || clasificarCategoria(descripcion),
\* for a body without categoria.
Clasificar ==
  /\ categoria = ""
  /\ categoria' = clasificarCategoria(descripcion)
  /\ UNCHANGED <<servidor, descripcion>>

NextClasificar == Clasificar

SpecClasificar == InitClasificar /\ [][NextClasificar]_vars

\* =================================================================
\* Creation and update of transactions with their category, through
\* routes/transacciones.js and routes/gastos.js.
\* =================================================================

\* routes/gastos.js, clasificarCategoria: the chain of if statements over
\* desc.toLowerCase() (not trimmed), each keyword as its UTF-16 code units.
clasificarCategoriaGastos(desc) ==
  LET texto == toLowerCase(desc)
  IN
     IF \/ includes(texto, <<99, 111, 109, 105, 100, 97>>)  \* comida
        \/ includes(texto, <<114, 101, 115, 116, 97, 117, 114, 97, 110, 116, 101>>)  \* restaurante
     THEN "alimentación"
     ELSE IF \/ includes(texto, <<116, 114, 97, 110, 115, 112, 111, 114, 116, 101>>)  \* transporte
             \/ includes(texto, <<117, 98, 101, 114>>)  \* uber
             \/ includes(texto, <<116, 97, 120, 105>>)  \* taxi
     THEN "transporte"
     ELSE IF \/ includes(texto, <<99, 105, 110, 101>>)  \* cine
             \/ includes(texto, <<111, 99, 105, 111>>)  \* ocio
             \/ includes(texto, <<112, 101, 108, 105, 99, 117, 108, 97>>)  \* pelicula
     THEN "entretenimiento"
     ELSE IF \/ includes(texto, <<108, 117, 122>>)  \* luz
             \/ includes(texto, <<97, 103, 117, 97>>)  \* agua
             \/ includes(texto, <<105, 110, 116, 101, 114, 110, 101, 116>>)  \* internet
     THEN "servicios"
     ELSE IF \/ includes(texto, <<115, 97, 108, 117, 100>>)  \* salud
             \/ includes(texto, <<109, 101, 100, 105, 99, 105, 110, 97>>)  \* medicina
     THEN "salud"
     ELSE IF \/ includes(texto, <<114, 111, 112, 97>>)  \* ropa
             \/ includes(texto, <<122, 97, 112, 97, 116, 111>>)  \* zapato
     THEN "ropa"
     ELSE "otros"

\* const categoriaFinal = categoria || clasificarCategoria(descripcion); an
\* absent categoria is the empty sequence.
CategoriaFinal(cat, d) == IF cat # <<>> THEN cat[1] ELSE clasificarCategoria(d)

\* ------------------------------------------ POST /api/transacciones
\* Validation, categoriaFinal, construction and nuevaTransaccion.save(),
\* with the body's descripcion and optional categoria; the handler goes on
\* as after CrearTransaccion.
CrearClasificada(p, u, tipo, monto, d, cat, resultado) ==
  /\ pc[p] = "idle"
  /\ \A q \in Procs : q < p => pc[q] # "idle"
  /\ nSolicitudes < MaxSolicitudes
  /\ nSolicitudes' = nSolicitudes + 1
  /\ req' = [req EXCEPT ![p] = [usuario |-> u, tipo |-> tipo, monto |-> monto]]
  /\ reqRuta' = [reqRuta EXCEPT ![p] =
        [SinRuta EXCEPT !.ruta = "transacciones.post", !.usuario = u,
                        !.monto = monto, !.categoria = cat,
                        !.descripcion = d]]
  /\ txAntes' = [txAntes EXCEPT ![p] = Len(transacciones)]
  /\ IF resultado = "ok"
     THEN /\ transacciones' = Append(transacciones,
                 [usuario |-> u, tipo |-> tipo, monto |-> monto,
                  categoria |-> CategoriaFinal(cat, d), activa |-> TRUE])
          /\ pc' = [pc EXCEPT ![p] = IF tipo = "ingreso" THEN "find" ELSE "populate"]
          /\ resp' = resp
     ELSE /\ transacciones' = transacciones
          /\ pc' = [pc EXCEPT ![p] = "done"]
          /\ resp' = [resp EXCEPT ![p] = IF resultado = "ValidationError" THEN 400 ELSE 500]
  /\ UNCHANGED <<metas, metasActivas, idx, montoRestante, fallo, aportes,
                 metasAntes, metasBorradas, txBorradas, metaLocal, cuerpo,
                 clasificador>>

\* ------------------------------------------------ POST /api/gastos
\* new Transaccion({ ...req.body, categoria: categoriaDetectada, usuario })
\* and nueva.save(); the answer is 201 with the document, 400 when the save
\* fails.  Nothing else is called.
CrearEnGastos(p, u, tipo, monto, d, cat, ok) ==
  /\ pc[p] = "idle"
  /\ \A q \in Procs : q < p => pc[q] # "idle"
  /\ nSolicitudes < MaxSolicitudes
  /\ nSolicitudes' = nSolicitudes + 1
  /\ reqRuta' = [reqRuta EXCEPT ![p] =
        [SinRuta EXCEPT !.ruta = "gastos.post", !.usuario = u,
                        !.monto = monto, !.categoria = cat,
                        !.descripcion = d]]
  /\ txAntes' = [txAntes EXCEPT ![p] = Len(transacciones)]
  /\ pc' = [pc EXCEPT ![p] = "done"]
  /\ LET guardada ==
           [usuario |-> u, tipo |-> tipo, monto |-> monto,
            categoria |-> clasificarCategoriaGastos(d), activa |-> TRUE]
     IN IF ok
        THEN /\ transacciones' = Append(transacciones, guardada)
             /\ resp' = [resp EXCEPT ![p] = 201]
             /\ cuerpo' = [cuerpo EXCEPT ![p].transacciones = <<guardada>>]
             /\ fallo' = fallo
        ELSE /\ transacciones' = transacciones
             /\ resp' = [resp EXCEPT ![p] = 400]
             /\ cuerpo' = cuerpo
             /\ fallo' = [fallo EXCEPT ![p] = @ \cup {"save"}]
  /\ UNCHANGED <<metas, metasBorradas, txBorradas, asignador, clasificador,
                 metaLocal, metasAntes>>

\* ------------------------------------ PUT /api/transacciones/:id
\* findOneAndUpdate({ _id, usuario, activa: true }, { ...otrosDatos,
\* descripcion, categoria: categoriaFinal }, { new: true }).
ActualizarClasificada(p, u, id, tipo, monto, d, cat, ok) ==
  /\ pc[p] = "idle"
  /\ \A q \in Procs : q < p => pc[q] # "idle"
  /\ reqRuta' = [reqRuta EXCEPT ![p] =
        [SinRuta EXCEPT !.ruta = "transacciones.put", !.usuario = u,
                        !.id = id, !.monto = monto, !.categoria = cat,
                        !.descripcion = d]]
  /\ pc' = [pc EXCEPT ![p] = "done"]
  /\ LET encontrada == BuscarTransaccion(u, id)
         actualizada ==
           IF encontrada = <<>> THEN <<>>
           ELSE <<[encontrada[1] EXCEPT
                     !.tipo = tipo, !.monto = monto,
                     !.categoria = CategoriaFinal(cat, d)]>>
     IN /\ transacciones' =
             IF ok /\ actualizada # <<>>
             THEN [transacciones EXCEPT ![id] = actualizada[1]]
             ELSE transacciones
        /\ Contesta(p, ok, actualizada, 404, 500)
  /\ UNCHANGED <<txBorradas, restoTx>>

\* -------------------------------------------- PUT /api/gastos/:id
\* findByIdAndUpdate(id, { ...req.body, categoria: categoriaDetectada },
\* { new: true }).
ActualizarEnGastos(p, u, id, monto, d, cat, ok) ==
  /\ pc[p] = "idle"
  /\ \A q \in Procs : q < p => pc[q] # "idle"
  /\ reqRuta' = [reqRuta EXCEPT ![p] =
        [SinRuta EXCEPT !.ruta = "gastos.put", !.usuario = u, !.id = id,
                        !.monto = monto, !.categoria = cat,
                        !.descripcion = d]]
  /\ pc' = [pc EXCEPT ![p] = "done"]
  /\ LET encontrada == BuscarPorId(id)
         actualizada ==
           IF encontrada = <<>> THEN <<>>
           ELSE <<[encontrada[1] EXCEPT
                     !.monto = monto,
                     !.categoria = clasificarCategoriaGastos(d)]>>
     IN /\ transacciones' =
             IF ok /\ actualizada # <<>>
             THEN [transacciones EXCEPT ![id] = actualizada[1]]
             ELSE transacciones
        /\ Contesta(p, ok, actualizada, 200, 400)
  /\ UNCHANGED <<txBorradas, restoTx>>

\* The descriptions (Uber, xyz) and optional categories of the bodies.
DescripcionesCuerpo == {<<85, 98, 101, 114>>, <<120, 121, 122>>}
CategoriasCuerpo == {<<>>, <<"salud">>}
MontosCuerpo == {2 * DivisorPorcentaje}

PasoCrearMetaMedia ==
  \E u \in Usuarios, o \in Objetivos : CrearMeta(u, o, "media", <<>>)

PasoCrearClasificada(p) ==
  \E u \in Usuarios, t \in Tipos, m \in MontosCuerpo,
     d \in DescripcionesCuerpo, c \in CategoriasCuerpo, r \in ResultadosSave :
     CrearClasificada(p, u, t, m, d, c, r)

PasoCrearEnGastos(p) ==
  \E u \in Usuarios, t \in Tipos, m \in MontosCuerpo,
     d \in DescripcionesCuerpo, c \in CategoriasCuerpo, ok \in BOOLEAN :
     CrearEnGastos(p, u, t, m, d, c, ok)

PasoActualizarClasificada(p) ==
  \E u \in Usuarios, id \in IdsTx, t \in Tipos, m \in MontosCuerpo,
     d \in DescripcionesCuerpo, c \in CategoriasCuerpo, ok \in BOOLEAN :
     ActualizarClasificada(p, u, id, t, m, d, c, ok)

PasoActualizarEnGastos(p) ==
  \E u \in Usuarios, id \in IdsTx, m \in MontosCuerpo,
     d \in DescripcionesCuerpo, c \in CategoriasCuerpo, ok \in BOOLEAN :
     ActualizarEnGastos(p, u, id, m, d, c, ok)

PasoEliminarPropia(p) ==
  \E u \in Usuarios, id \in IdsTx, ok \in BOOLEAN :
     EliminarTransaccion(p, u, id, ok)

\* The transaction routes of one user with the goal collection, requests
\* served one at a time.
NextRutas ==
  \/ Libre /\ PasoCrearMetaMedia
  \/ \E p \in Procs : Solo(p) /\ PasoCrearClasificada(p)
  \/ \E p \in Procs : Solo(p) /\ PasoBuscarMetas(p)
  \/ \E p \in Procs : Solo(p) /\ PasoIterarMeta(p)
  \/ \E p \in Procs : Solo(p) /\ PasoPopulate(p)
  \/ \E p \in Procs : Solo(p) /\ PasoCrearEnGastos(p)
  \/ \E p \in Procs : Solo(p) /\ PasoActualizarClasificada(p)
  \/ \E p \in Procs : Solo(p) /\ PasoActualizarEnGastos(p)
  \/ \E p \in Procs : Solo(p) /\ PasoEliminarPropia(p)
  \/ \E p \in Procs : Solo(p) /\ Responder(p)

SpecRutas == Init /\ [][NextRutas]_vars

\* =================================================================
\* Manual contributions in flight at the same time.
\* =================================================================

\* Goal creation and the three awaits of POST /api/metas/:id/agregar, the
\* requests of the two slots interleaved at their awaits.
NextAportes ==
  \/ PasoCrearMetaDe
  \/ \E p \in Procs : PasoAgregarBuscar(p)
  \/ \E p \in Procs : PasoAgregarGuardarMeta(p)
  \/ \E p \in Procs : PasoAgregarGuardarTx(p)
  \/ \E p \in Procs : Responder(p)

SpecAportes == Init /\ [][NextAportes]_vars

\* =================================================================
\* The allocator among the goals of two users, active and paused.
\* =================================================================

\* Incomes and expenses of one user with the goals of two users, which are
\* created, paused and resumed between the requests; requests served one
\* at a time.
NextConservacion ==
  \/ Libre /\ PasoCrearMetaDe
  \/ Libre /\ PasoCambiarEstado
  \/ \E p \in Procs : Solo(p) /\ PasoCrearTransaccion(p)
  \/ \E p \in Procs : Solo(p) /\ PasoBuscarMetas(p)
  \/ \E p \in Procs : Solo(p) /\ PasoIterarMeta(p)
  \/ \E p \in Procs : Solo(p) /\ PasoPopulate(p)
  \/ \E p \in Procs : Solo(p) /\ Responder(p)

SpecConservacion == Init /\ [][NextConservacion]_vars

\* =================================================================
\* The allocator interleaved with the goal routes.
\* =================================================================

PasoCrearIngreso(p) ==
  \E u \in Usuarios, m \in Ingresos : CrearTransaccion(p, u, "ingreso", m, "ok")

PasoAgregarPropia(p) ==
  \E u \in Usuarios, id \in IdsCambio, m \in Montos, ok \in BOOLEAN :
     AgregarBuscar(p, u, id, m, ok)

\* Creation of an income with its allocator run, manual contributions,
\* pausing, resuming and deletion of a goal of one user, interleaved at
\* their database calls.
NextCarrera ==
  \/ PasoCrearMetaMedia
  \/ PasoCambiarEstadoDe
  \/ PasoEliminarMeta
  \/ \E p \in Procs : PasoCrearIngreso(p)
  \/ \E p \in Procs : PasoBuscarMetas(p)
  \/ \E p \in Procs : PasoIterarMeta(p)
  \/ \E p \in Procs : PasoPopulate(p)
  \/ \E p \in Procs : PasoAgregarPropia(p)
  \/ \E p \in Procs : PasoAgregarGuardarMeta(p)
  \/ \E p \in Procs : PasoAgregarGuardarTx(p)
  \/ \E p \in Procs : Responder(p)

SpecCarrera == Init /\ [][NextCarrera]_vars

\* =================================================================
\* Status and amounts of a goal under the goal routes.
\* =================================================================

\* PATCH /api/metas/:id/estado with each status the route accepts.
PasoCambiarEstadoCualquiera ==
  \E u \in Usuarios, id \in IdsCambio, e \in Estados : CambiarEstado(u, id, e)

\* Creation, update, manual contribution and status change of one user's
\* goals, requests served one at a time.
NextEstados ==
  \/ Libre /\ PasoCrearMetaMedia
  \/ Libre /\ PasoCambiarEstadoCualquiera
  \/ \E p \in Procs : Solo(p) /\ PasoActualizarBuscar(p)
  \/ \E p \in Procs : Solo(p) /\ PasoActualizarCompletar(p)
  \/ \E p \in Procs : Solo(p) /\ PasoAgregarPropia(p)
  \/ \E p \in Procs : Solo(p) /\ PasoAgregarGuardarMeta(p)
  \/ \E p \in Procs : Solo(p) /\ PasoAgregarGuardarTx(p)
  \/ \E p \in Procs : Solo(p) /\ Responder(p)

SpecEstados == Init /\ [][NextEstados]_vars

\* =================================================================
\* Properties of the allocator.
\* =================================================================

\* The allocator of request p has read the goals (its query succeeded).
Corrio(p) == idx[p] > 0

\* The allocator of request p has returned.
Retorno(p) == Corrio(p) /\ pc[p] \in {"populate", "done"}

\* The allocator of request p has returned and none of its calls failed.
CorridaLimpia(p) == Retorno(p) /\ fallo[p] \cap {"find", "inc"} = {}

\* What the stored goal id gained since request p read the goals.
Recibido(p, id) == metas[id].montoActual - metasAntes[p][id].montoActual

\* Remaining capacity of goal id when request p read the goals.
Capacidad(p, id) ==
  metasAntes[p][id].montoObjetivo - metasAntes[p][id].montoActual

\* The goal processed k-th by request p.
IdEn(p, k) == metasActivas[p][k].id

\* Ten percent of the income of request p.
DiezPorCiento(p) == req[p].monto \div 10

\* What is left of the pool of request p when it reaches its k-th goal,
\* judged by what the goals before it gained.
RECURSIVE RestanteEn(_, _)
RestanteEn(p, k) ==
  IF k <= 1 THEN DiezPorCiento(p)
  ELSE RestanteEn(p, k - 1) - Recibido(p, IdEn(p, k - 1))

\* Sum of the amounts of the first k recorded contributions of request p.
RECURSIVE SumaAportes(_, _)
SumaAportes(p, k) ==
  IF k <= 0 THEN 0 ELSE SumaAportes(p, k - 1) + aportes[p][k].monto

\* C1: in a run that is not interleaved with another request and whose
\* goals start with current amount <= target amount, every contribution
\* equals min(remaining pool, target - current) of its goal, and once the
\* run has returned no goal holds more than its target amount.
C1_AporteAcotado ==
  \A p \in Procs :
    (Corrio(p) /\ \A i \in DOMAIN metasAntes[p] :
        metasAntes[p][i].montoActual <= metasAntes[p][i].montoObjetivo)
    => /\ \A k \in DOMAIN aportes[p] :
            LET a == aportes[p][k]
            IN /\ a.restante = DiezPorCiento(p) - SumaAportes(p, k - 1)
               /\ a.monto = Min(a.restante,
                                metas[a.id].montoObjetivo - a.actualAntes)
       /\ Retorno(p) =>
            \A i \in DOMAIN metas : metas[i].montoActual <= metas[i].montoObjetivo

\* A returned run in which one contribution was cut down to the goal's
\* remaining capacity and another used up the rest of the pool.
C1_Testigo ==
  \E p \in Procs :
    /\ CorridaLimpia(p)
    /\ Len(aportes[p]) = 2
    /\ aportes[p][1].monto < aportes[p][1].restante
    /\ aportes[p][2].monto = aportes[p][2].restante

\* C2: in every interleaving of two allocator runs no goal's current
\* amount ever exceeds its target amount.
C2_NuncaExcede ==
  \A i \in DOMAIN metas : metas[i].montoActual <= metas[i].montoObjetivo

\* Rank of a priority as the specification orders them: high > medium > low.
Rango(prioridad) ==
  CASE prioridad = "alta" -> 3
    [] prioridad = "media" -> 2
    [] prioridad = "baja" -> 1

\* Priority and deadline of the goal processed k-th by request p.
PrioridadEn(p, k) == metasActivas[p][k].doc.prioridad

FechaEn(p, k) == metasActivas[p][k].doc.fechaLimite

\* C3: the allocator processes the goals in the order alta, media, baja:
\* of two goals of different priority that the pool cannot both fill, the
\* higher-priority one comes first and the lower-priority one receives
\* funds only once the higher-priority one is full.
C3_PrioridadPrimero ==
  \A p \in Procs :
    CorridaLimpia(p) =>
      \A a, b \in DOMAIN metasActivas[p] :
        (/\ Rango(PrioridadEn(p, a)) > Rango(PrioridadEn(p, b))
         /\ DiezPorCiento(p) < Capacidad(p, IdEn(p, a)) + Capacidad(p, IdEn(p, b)))
        => /\ a < b
           /\ Recibido(p, IdEn(p, b)) > 0
                => Recibido(p, IdEn(p, a)) = Capacidad(p, IdEn(p, a))

\* C4: of two goals of equal priority that both have a deadline, the one
\* with the sooner deadline is processed first and receives
\* min(pool left, its remaining capacity); the later one receives only what
\* is left after that.
C4_FechaProximaPrimero ==
  \A p \in Procs :
    CorridaLimpia(p) =>
      \A a, b \in DOMAIN metasActivas[p] :
        (/\ PrioridadEn(p, a) = PrioridadEn(p, b)
         /\ FechaEn(p, a) # <<>> /\ FechaEn(p, b) # <<>>
         /\ FechaEn(p, a)[1] < FechaEn(p, b)[1])
        => /\ a < b
           /\ Recibido(p, IdEn(p, a)) =
                Min(RestanteEn(p, a), Capacidad(p, IdEn(p, a)))
           /\ Recibido(p, IdEn(p, b)) <=
                RestanteEn(p, a) - Recibido(p, IdEn(p, a))
           /\ b = a + 1 =>
                Recibido(p, IdEn(p, b)) =
                  Min(RestanteEn(p, a) - Recibido(p, IdEn(p, a)),
                      Capacidad(p, IdEn(p, b)))

\* A returned run over two goals of equal priority with different deadlines
\* whose pool did not suffice for both: the sooner one gained, the later one
\* was left short.
C4_Testigo ==
  \E p \in Procs :
    /\ CorridaLimpia(p)
    /\ Len(metasActivas[p]) = 2
    /\ PrioridadEn(p, 1) = PrioridadEn(p, 2)
    /\ FechaEn(p, 1) = <<1>> /\ FechaEn(p, 2) = <<2>>
    /\ DiezPorCiento(p) < Capacidad(p, IdEn(p, 1)) + Capacidad(p, IdEn(p, 2))
    /\ Recibido(p, IdEn(p, 1)) > 0
    /\ Recibido(p, IdEn(p, 2)) < Capacidad(p, IdEn(p, 2))

\* C5: among goals of equal priority, a goal without a deadline is processed
\* after every goal that has one.
C5_SinFechaAlFinal ==
  \A p \in Procs :
    Corrio(p) =>
      \A a, b \in DOMAIN metasActivas[p] :
        (/\ PrioridadEn(p, a) = PrioridadEn(p, b)
         /\ FechaEn(p, a) = <<>> /\ FechaEn(p, b) # <<>>)
        => b < a

\* C6: with a single active goal whose remaining capacity is at least ten
\* percent of the income, a run raises the goal by exactly ten percent of
\* the income.
C6_DiezPorCientoExacto ==
  \A p \in Procs :
    (/\ CorridaLimpia(p)
     /\ Len(metasActivas[p]) = 1
     /\ 10 * Capacidad(p, IdEn(p, 1)) >= req[p].monto)
    => 10 * Recibido(p, IdEn(p, 1)) = req[p].monto

\* A finished request whose single goal had more room than the pool and
\* gained the pool.
C6_Testigo ==
  \E p \in Procs :
    /\ CorridaLimpia(p) /\ pc[p] = "done"
    /\ Len(metasActivas[p]) = 1
    /\ 10 * Capacidad(p, IdEn(p, 1)) > req[p].monto
    /\ 10 * Recibido(p, IdEn(p, 1)) = req[p].monto

\* C7: with exactly two active goals, a high-priority one whose remaining
\* capacity is below the pool and an empty medium-priority one, the
\* high-priority goal gains its remaining capacity and the medium-priority
\* goal gains the rest of the pool, cut down to its capacity.
C7_SobranteFluye ==
  \A p \in Procs :
    (CorridaLimpia(p) /\ Len(metasActivas[p]) = 2) =>
      \A a, b \in DOMAIN metasActivas[p] :
        (/\ PrioridadEn(p, a) = "alta" /\ PrioridadEn(p, b) = "media"
         /\ Capacidad(p, IdEn(p, a)) < DiezPorCiento(p)
         /\ metasAntes[p][IdEn(p, b)].montoActual = 0)
        => /\ Recibido(p, IdEn(p, a)) = Capacidad(p, IdEn(p, a))
           /\ Recibido(p, IdEn(p, b)) =
                Min(DiezPorCiento(p) - Capacidad(p, IdEn(p, a)),
                    Capacidad(p, IdEn(p, b)))

\* The income transaction of request p is stored, and is the only record
\* written since the request began.
IngresoGuardado(p) ==
  /\ Len(transacciones) = txAntes[p] + 1
  /\ transacciones[txAntes[p] + 1] =
       [usuario |-> req[p].usuario, tipo |-> "ingreso",
        monto |-> req[p].monto, activa |-> TRUE]

\* C8: a failure of the goal query or of an increment does not fail the
\* request: the income transaction stays stored, the handler goes on to its
\* last step, and unless that step fails on its own the answer is 201.
C8_FalloTragado ==
  \A p \in Procs :
    fallo[p] \cap {"find", "inc"} # {} =>
      /\ IngresoGuardado(p)
      /\ pc[p] \in {"populate", "done"}
      /\ (pc[p] = "done" /\ "populate" \notin fallo[p]) => resp[p] = 201

\* A request answered 201 although an increment of its allocator failed.
C8_Testigo ==
  \E p \in Procs :
    pc[p] = "done" /\ "inc" \in fallo[p] /\ resp[p] = 201 /\ IngresoGuardado(p)

\* C9: when the increment of the k-th goal fails, the goals before it keep
\* what they gained, the k-th and every later goal are unchanged, and no
\* further contribution is made.
C9_SinReversion ==
  \A p \in Procs :
    "inc" \in fallo[p] =>
      /\ idx[p] \in DOMAIN metasActivas[p]
      /\ Len(aportes[p]) < idx[p]
      /\ \A j \in DOMAIN metasActivas[p] :
           Recibido(p, IdEn(p, j)) =
             IF j < idx[p] /\ Capacidad(p, IdEn(p, j)) > 0
             THEN Min(RestanteEn(p, j), Capacidad(p, IdEn(p, j)))
             ELSE 0

\* A finished request whose increment of the second goal failed after the
\* first goal gained, with pool left for the second.
C9_Testigo ==
  \E p \in Procs :
    /\ pc[p] = "done" /\ "inc" \in fallo[p]
    /\ Len(metasActivas[p]) = 2 /\ idx[p] = 2
    /\ Recibido(p, IdEn(p, 1)) > 0
    /\ RestanteEn(p, 2) > 0
    /\ Capacidad(p, IdEn(p, 2)) > 0
    /\ Recibido(p, IdEn(p, 2)) = 0

\* C10: a request that creates an income transaction adds exactly one
\* transaction record, however many goals its allocator funds.
C10_UnSoloRegistro ==
  \A p \in Procs :
    (/\ req[p].tipo = "ingreso"
     /\ \/ pc[p] \in {"find", "bucle", "populate"}
        \/ pc[p] = "done" /\ resp[p] = 201)
    => Len(transacciones) = txAntes[p] + 1

\* A request answered 201 whose allocator funded two goals.
C10_Testigo ==
  \E p \in Procs :
    /\ pc[p] = "done" /\ resp[p] = 201 /\ req[p].tipo = "ingreso"
    /\ Len(aportes[p]) = 2
    /\ Len(transacciones) = txAntes[p] + 1

\* No request is between its first step and its response.
EnReposo == \A p \in Procs : pc[p] \in {"idle", "done"}

\* C11: a goal becomes completed whenever its current amount reaches its
\* target amount, through the manual contribution or through the allocator:
\* once an operation has finished, no goal is active with current amount >=
\* target amount.
C11_CompletaAlLlegar ==
  EnReposo =>
    \A i \in DOMAIN metas :
      ~(metas[i].estado = "activa"
        /\ metas[i].montoActual >= metas[i].montoObjetivo)

\* C12: the allocator never changes a goal's status, also when the goal
\* reaches its target amount through the run.
C12_EstadoIntacto ==
  \A p \in Procs :
    Corrio(p) =>
      \A i \in DOMAIN metasAntes[p] : metas[i].estado = metasAntes[p][i].estado

\* A returned run that brought a goal from below its target to its target,
\* the goal still active.
C12_Testigo ==
  \E p \in Procs :
    /\ Retorno(p)
    /\ \E i \in DOMAIN metasAntes[p] :
         /\ metasAntes[p][i].montoActual < metasAntes[p][i].montoObjetivo
         /\ metas[i].montoActual >= metas[i].montoObjetivo
         /\ Recibido(p, i) > 0
         /\ metas[i].estado = "activa"

\* The goals from the k-th on, in the processing order of request p, are
\* stored as they were when the run read them.
RestoIntacto(p, k) ==
  \A j \in k..Len(metasActivas[p]) : metas'[IdEn(p, j)] = metasAntes[p][IdEn(p, j)]

\* C23: in an allocator run, a goal whose remaining capacity is <= 0 is
\* skipped without a write and the loop goes on to the next goal; once the
\* pool is <= 0 the loop ends and every goal later in the processing order
\* is left as it was.
C23_SaltaYTermina ==
  [][\A p \in Procs :
       (pc[p] = "bucle" /\ idx[p] <= Len(metasActivas[p])) =>
         LET meta == metasActivas[p][idx[p]]
             montoFaltante == meta.doc.montoObjetivo - meta.doc.montoActual
         IN /\ montoRestante[p] <= 0 =>
                 /\ pc'[p] = "populate"
                 /\ metas' = metas
                 /\ RestoIntacto(p, idx[p])
            /\ (montoRestante[p] > 0 /\ montoFaltante <= 0) =>
                 /\ pc'[p] = "bucle"
                 /\ idx'[p] = idx[p] + 1
                 /\ metas' = metas
                 /\ montoRestante'[p] = montoRestante[p]
                 /\ aportes'[p] = aportes[p]]_vars

\* A run skipped its first goal, which had no capacity left, and went on to
\* fund the second.
C23_Testigo ==
  \E p \in Procs :
    /\ CorridaLimpia(p)
    /\ Len(metasActivas[p]) = 2
    /\ Capacidad(p, IdEn(p, 1)) <= 0
    /\ Len(aportes[p]) = 1
    /\ aportes[p][1].id = IdEn(p, 2)

\* Goal i was an active goal of the requester when request p read the goals.
EraActivaPropia(p, i) ==
  /\ i \notin metasBorradas
  /\ metasAntes[p][i].usuario = req[p].usuario
  /\ metasAntes[p][i].estado = "activa"

\* Sum of the remaining capacities, when request p read the goals, of the
\* requester's active goals among the first k.
RECURSIVE CapacidadHasta(_, _)
CapacidadHasta(p, k) ==
  IF k <= 0 THEN 0
  ELSE CapacidadHasta(p, k - 1)
         + (IF EraActivaPropia(p, k) THEN Capacidad(p, k) ELSE 0)

C27_SoloActivasAlIncrementar ==
  [][\A p \in Procs :
       Len(aportes'[p]) > Len(aportes[p]) =>
         LET a == aportes'[p][Len(aportes'[p])]
         IN /\ a.id \notin metasBorradas
            /\ metas[a.id].estado = "activa"
            /\ metas'[a.id].montoActual = metas[a.id].montoActual + a.monto
            /\ montoRestante'[p] = montoRestante[p] - a.monto]_vars

\* =================================================================
\* Properties of the manual contribution.
\* =================================================================

\* Slot p holds a manual contribution whose goal query did not fail.
AgregarDe(p) ==
  reqRuta[p].ruta = "agregar" /\ pc[p] # "idle" /\ "findOne" \notin fallo[p]

\* When the contribution of slot p arrived, its goal existed, belonged to
\* the requester and was active.
Encontrable(p) ==
  LET r == reqRuta[p]
  IN /\ r.id \in DOMAIN metasAntes[p] /\ r.id \notin metasBorradas
     /\ metasAntes[p][r.id].usuario = r.usuario
     /\ metasAntes[p][r.id].estado = "activa"

\* Since the request of slot p arrived no goal and no record was written.
NadaEscrito(p) ==
  metas = metasAntes[p] /\ Len(transacciones) = txAntes[p]

\* C13: a manual contribution to a goal that does not exist, belongs to
\* another user or is not active is answered 404 at once, and no goal and
\* no transaction record is written.
C13_NoEncontrada ==
  \A p \in Procs :
    (AgregarDe(p) /\ ~Encontrable(p)) =>
      pc[p] = "done" /\ resp[p] = 404 /\ NadaEscrito(p)

\* A contribution answered 404 for a goal of the requester that is stored
\* but no longer active.
C13_Testigo ==
  \E p \in Procs :
    /\ AgregarDe(p) /\ pc[p] = "done" /\ resp[p] = 404
    /\ reqRuta[p].id \in DOMAIN metas
    /\ metas[reqRuta[p].id].usuario = reqRuta[p].usuario
    /\ metas[reqRuta[p].id].estado # "activa"

\* The contribution of slot p would bring its goal above the target.
Sobrepasa(p) ==
  LET antes == metasAntes[p][reqRuta[p].id]
  IN antes.montoActual + reqRuta[p].monto > antes.montoObjetivo

\* C14: a manual contribution with current + amount > target is answered
\* 400 with montoMaximo = target - current; the goal keeps its amount and
\* status and no transaction record is created.
C14_RechazaExceso ==
  \A p \in Procs :
    (AgregarDe(p) /\ Encontrable(p) /\ Sobrepasa(p)) =>
      LET antes == metasAntes[p][reqRuta[p].id]
      IN /\ pc[p] = "done" /\ resp[p] = 400
         /\ cuerpo[p].montoMaximo = <<antes.montoObjetivo - antes.montoActual>>
         /\ NadaEscrito(p)

\* A contribution of 2 to a goal with target 2 and current amount 1 was
\* answered 400 with montoMaximo 1.
C14_Testigo ==
  \E p \in Procs :
    /\ AgregarDe(p) /\ Encontrable(p) /\ Sobrepasa(p)
    /\ pc[p] = "done" /\ resp[p] = 400
    /\ reqRuta[p].monto = 2
    /\ metas[reqRuta[p].id].montoActual = 1
    /\ cuerpo[p].montoMaximo = <<1>>

\* C15: a manual contribution of amount a answered with success was made to
\* an active goal of the requester with current + a <= target; the stored
\* goal gained exactly a, is completed exactly when its new amount >= its
\* target, exactly one record was added (an expense of amount a, subcategory
\* 'ahorro_meta', owned by the requester), and the answer carries the
\* updated goal and that record.  Such a contribution is answered with
\* success unless one of its database calls fails.
C15_AporteExitoso ==
  \A p \in Procs :
    /\ (AgregarDe(p) /\ pc[p] = "done" /\ resp[p] = 200) =>
         LET r == reqRuta[p]
             antes == metasAntes[p][r.id]
             ahora == metas[r.id]
             registro == transacciones[Len(transacciones)]
         IN /\ Encontrable(p) /\ ~Sobrepasa(p)
            /\ ahora.montoActual = antes.montoActual + r.monto
            /\ ahora.estado =
                 IF ahora.montoActual >= ahora.montoObjetivo
                 THEN "completada" ELSE "activa"
            /\ ahora = [antes EXCEPT !.montoActual = ahora.montoActual,
                                     !.estado = ahora.estado]
            /\ \A i \in DOMAIN metas : i # r.id => metas[i] = metasAntes[p][i]
            /\ Len(transacciones) = txAntes[p] + 1
            /\ registro = [usuario |-> r.usuario, tipo |-> "gasto",
                           monto |-> r.monto, categoria |-> "otros",
                           subcategoria |-> "ahorro_meta", activa |-> TRUE]
            /\ cuerpo[p].meta = <<ahora>>
            /\ cuerpo[p].transacciones = <<registro>>
    /\ (AgregarDe(p) /\ pc[p] = "done" /\ fallo[p] = {}
        /\ Encontrable(p) /\ ~Sobrepasa(p)) => resp[p] = 200

\* A contribution answered with success that brought its goal from below
\* the target to the target: the goal is completed and the record stored.
C15_Testigo ==
  \E p \in Procs :
    /\ AgregarDe(p) /\ pc[p] = "done" /\ resp[p] = 200
    /\ metasAntes[p][reqRuta[p].id].montoActual = 1
    /\ metas[reqRuta[p].id].montoActual = 2
    /\ metas[reqRuta[p].id].estado = "completada"
    /\ Len(transacciones) = txAntes[p] + 1
    /\ Len(cuerpo[p].transacciones) = 1

\* Sum of the current amounts of the first k goals.
RECURSIVE SumaActual(_)
SumaActual(k) ==
  IF k <= 0 THEN 0 ELSE SumaActual(k - 1) + metas[k].montoActual

\* The k-th stored transaction is the record of a manual contribution.
EsRegistroAporte(k) ==
  /\ "subcategoria" \in DOMAIN transacciones[k]
  /\ transacciones[k].subcategoria = "ahorro_meta"
  /\ transacciones[k].tipo = "gasto"

\* Sum of the amounts of the contribution records among the first k
\* transactions.
RECURSIVE SumaRegistros(_)
SumaRegistros(k) ==
  IF k <= 0 THEN 0
  ELSE SumaRegistros(k - 1)
         + (IF EsRegistroAporte(k) THEN transacciones[k].monto ELSE 0)

\* C25: the manual contribution is all-or-nothing over the goal and its
\* record: once no request is in flight, what the goals gained through the
\* contribution endpoint equals what the 'ahorro_meta' expense records
\* account for, also after a failed save of the record; and a contribution
\* answered with an internal error has left every goal unchanged.
C25_TodoONada ==
  /\ EnReposo => SumaActual(Len(metas)) = SumaRegistros(Len(transacciones))
  /\ \A p \in Procs :
       (AgregarDe(p) /\ pc[p] = "done" /\ resp[p] = 500) =>
         metas = metasAntes[p]

\* The contribution of slot p was answered, with no failed database call.
AporteAtendido(p) == AgregarDe(p) /\ pc[p] = "done" /\ fallo[p] = {}

\* What the contribution of slot p added according to its answer.
MontoExitoso(p) == IF resp[p] = 200 THEN reqRuta[p].monto ELSE 0

\* C24: in every interleaving of two manual contributions to the same
\* active goal, once both are answered the goal's current amount is its
\* initial amount plus the amounts of the contributions answered with
\* success, each with one expense record, and is <= the target amount.
C24_NingunAportePerdido ==
  \A p, q \in Procs :
    (/\ p < q /\ AporteAtendido(p) /\ AporteAtendido(q)
     /\ reqRuta[p].id = reqRuta[q].id
     /\ Encontrable(p) /\ Encontrable(q)) =>
       LET id == reqRuta[p].id
           inicial == Min(metasAntes[p][id].montoActual,
                          metasAntes[q][id].montoActual)
       IN /\ metas[id].montoActual = inicial + MontoExitoso(p) + MontoExitoso(q)
          /\ metas[id].montoActual <= metas[id].montoObjetivo
          /\ SumaRegistros(Len(transacciones)) >= MontoExitoso(p) + MontoExitoso(q)

\* =================================================================
\* Properties of the goal collection.
\* =================================================================

\* C16: in every state reachable through any sequence or interleaving of
\* goal creation, update, status change and deletion requests, a user has
\* at most 10 active goals.
C16_AlMasDiez ==
  \A u \in Usuarios : Cardinality(IdsActivas(u)) <= LimiteMetasActivas

\* C28: under every sequence of goal requests (create, update, contribute,
\* change status), once a step leaves no request in flight a goal is
\* completed only if its current amount >= its target amount, and no goal
\* with current amount >= target amount has been put into status active
\* by that step.
C28_EstadoCoherente ==
  [][(\A p \in Procs : pc'[p] \in {"idle", "done"}) =>
       \A i \in DOMAIN metas' :
         /\ metas'[i].estado = "completada" =>
              metas'[i].montoActual >= metas'[i].montoObjetivo
         /\ (/\ metas'[i].estado = "activa"
             /\ metas'[i].montoActual >= metas'[i].montoObjetivo) =>
              (i \in DOMAIN metas /\ metas[i] = metas'[i])]_vars

\* =================================================================
\* Properties of the transaction routes.
\* =================================================================

\* Slot p answers, in this step, a request of a by-id or list route.
Atiende(p) == pc[p] = "idle" /\ pc'[p] = "done" /\ reqRuta'[p].ruta # ""

\* C17: no request of user A through a mounted transaction route reads,
\* updates or deletes a transaction owned by another user: the step that
\* serves the request leaves every such transaction as it is, and the
\* answer carries transactions of A only.
C17_SoloPropias ==
  [][\A p \in Procs :
       Atiende(p) =>
         LET u == reqRuta'[p].usuario
         IN /\ \A i \in DOMAIN transacciones :
                 transacciones[i].usuario # u =>
                   /\ transacciones'[i] = transacciones[i]
                   /\ i \in txBorradas' <=> i \in txBorradas
            /\ \A k \in DOMAIN cuerpo'[p].transacciones :
                 cuerpo'[p].transacciones[k].usuario = u]_vars

\* C18: once a stored transaction has activa = false, no request changes
\* any of its fields, sets activa back to true or removes the record.
C18_InactivaInmutable ==
  [][\A i \in DOMAIN transacciones :
       (i \notin txBorradas /\ ~transacciones[i].activa) =>
         /\ i \notin txBorradas'
         /\ transacciones'[i] = transacciones[i]]_vars

\* =================================================================
\* Properties of creation and update with a category.
\* =================================================================

\* Slot p holds an answered request of the given routes.
Respondida(p, rutas, codigo) ==
  pc[p] = "done" /\ reqRuta[p].ruta \in rutas /\ resp[p] = codigo

\* C21: a creation or update request through a mounted transaction route
\* that carries a category persists exactly that category, whatever the
\* description.
C21_CategoriaSuministrada ==
  \A p \in Procs :
    reqRuta[p].categoria # <<>> =>
      /\ Respondida(p, {"transacciones.post", "gastos.post"}, 201) =>
           transacciones[txAntes[p] + 1].categoria = reqRuta[p].categoria[1]
      /\ (/\ Respondida(p, {"transacciones.put", "gastos.put"}, 200)
          /\ cuerpo[p].transacciones # <<>>) =>
           transacciones[reqRuta[p].id].categoria = reqRuta[p].categoria[1]

\* C22: the step that answers the successful creation of an income
\* transaction, through either creation route, ends a request whose
\* allocator was called after the save; and the goals change only in an
\* allocator increment of an income request or in a goal creation, so
\* creating an expense, updating and deleting leave every goal unchanged.
C22_AsignadorConIngreso ==
  [][/\ \A p \in Procs :
          (/\ pc[p] # "done" /\ pc'[p] = "done" /\ resp'[p] = 201
           /\ reqRuta'[p].ruta \in {"transacciones.post", "gastos.post"}
           /\ transacciones'[txAntes'[p] + 1].tipo = "ingreso")
          => (idx'[p] > 0 \/ "find" \in fallo'[p])
     /\ metas' # metas =>
          \/ Len(metas') > Len(metas)
          \/ \E p \in Procs :
                /\ Len(aportes'[p]) > Len(aportes[p])
                /\ req[p].tipo = "ingreso"
                /\ Len(transacciones) > txAntes[p]]_vars

\* =================================================================
\* Properties of the classifier.
\* =================================================================

\* The nine categories of the transaction schema.
Categorias ==
  {"alimentación", "transporte", "entretenimiento", "servicios", "salud",
   "ropa", "educación", "hogar", "otros"}

\* The description being classified, lowercased and trimmed.
Normalizada == trim(toLowerCase(descripcion))

\* The k-th keyword list has a keyword contained in the normalized text.
TieneClave(k) ==
  \E j \in DOMAIN categorias[k].palabras :
     includes(Normalizada, categorias[k].palabras[j])

\* C19: for every description, the empty one included, clasificarCategoria
\* returns one of the nine categories, and it returns 'otros' exactly when
\* the lowercased, trimmed text contains no keyword of any of the eight
\* lists.
C19_Total ==
  categoria # "" =>
    /\ categoria \in Categorias
    /\ categoria = "otros" <=> \A k \in DOMAIN categorias : ~TieneClave(k)

\* The empty description has been classified as 'otros'.
C19_Testigo == descripcion = <<>> /\ categoria = "otros"

\* C20: clasificarCategoria returns the first category in declaration order
\* that has a keyword contained in the normalized text, also when a later
\* category has one too.
C20_PrimeraGana ==
  categoria # "" =>
    \A k \in DOMAIN categorias :
      (TieneClave(k) /\ \A j \in 1..(k - 1) : ~TieneClave(j))
      => categoria = categorias[k].categoria

\* A classified description with keywords of two categories: the result is
\* the earlier-declared one.
C20_Testigo ==
  \E j, k \in DOMAIN categorias :
    /\ j < k /\ TieneClave(j) /\ TieneClave(k)
    /\ \A i \in 1..(j - 1) : ~TieneClave(i)
    /\ categoria = categorias[j].categoria

====
